---- MODULE Spec2Model ----
(***************************************************************************)
(* Verification model of docx-mcp.                                         *)
(*                                                                         *)
(* Part 1: the tenant registry (docx-core/src/services.rs):                *)
(*   SolutionRegistry::get_or_init, evict_idle, spawn_sweeper, with the    *)
(*   RwLock around the map, the per-entry OnceCell and last_used_ms.       *)
(*   Specification: Spec.                                                  *)
(*                                                                         *)
(* Part 2: the ingestion control plane (docx-core/src/control/ingest.rs)   *)
(*   and the store writes it issues (docx-core/src/store/surreal.rs).      *)
(*   Specification: IngestSpec.                                            *)
(***************************************************************************)
EXTENDS Integers, Sequences, FiniteSets, TLC

(***************************************************************************)
(* Bounds                                                                  *)
(***************************************************************************)
NumCallers == 2
NumTenants == 2
MaxTime == 2
MaxTtl == 1
MaxCap == 1

Callers == 1..NumCallers
Tenants == 1..NumTenants

\* evict_idle is run by the sweeper task and by direct callers
SweeperId == NumCallers + 1
UserEvictId == NumCallers + 2

NoTtl == -1
NoMax == -1
NoEntry == 0
NoHandle == 0
NoProc == 0

TtlChoices == {NoTtl} \cup (1..MaxTtl)
MaxEntriesChoices == {NoMax} \cup (1..MaxCap)

VARIABLES
    \* ---- registry configuration (SolutionRegistryConfig)
    ttl,            \* Option<Duration> in ms, NoTtl when unset
    max_entries,    \* Option<usize>, NoMax when unset
    \* ---- wall clock
    now,
    \* ---- SolutionRegistryInner.entries : RwLock<HashMap<String, Arc<SolutionEntry>>>
    entries,        \* tenant -> entry id (NoEntry when absent)
    readers,        \* processes holding the read guard
    writer,         \* process holding the write guard (NoProc when none)
    \* ---- SolutionEntry objects (entry id = id of the call that allocated it)
    handle,         \* entry -> OnceCell value (NoHandle when unset, else handle id)
    permit,         \* entry -> call running the OnceCell initializer (NoProc when none)
    last_used_ms,   \* entry -> AtomicU64
    \* ---- get_or_init calls
    pc,             \* call -> position
    solution,       \* call -> tenant argument
    entry,          \* call -> Arc<SolutionEntry> the call holds
    result,         \* call -> returned value
    \* ---- evict_idle runs
    erun,           \* process running evict_idle (NoProc when none)
    epc,            \* its position
    enow,           \* the value of `now` it read at line 238
    eret,           \* count returned by the last finished run (-1 before any)
    \* ---- spawn_sweeper / registry handles
    sweeper,        \* "unspawned" | "none" | "running"
    registry_alive, \* TRUE while a registry handle other than the sweeper's clone exists
    \* ---- history
    invoked,        \* calls that invoked the builder
    evicted,        \* tenants that had an entry removed by evict_idle
    overlap,        \* call -> calls in flight when it started
    touched_at      \* call -> clock value stored by its touch (-1 before)

regVars == <<ttl, max_entries, now, entries, readers, writer, handle, permit,
             last_used_ms, pc, solution, entry, result, erun, epc, enow, eret,
             sweeper, registry_alive, invoked, evicted, overlap, touched_at>>

VARIABLES
    \* ---- one ingest_csharp_xml / ingest_rustdoc_json call
    req,            \* the request (and what its payload parses to)
    ipc,            \* position in the pipeline
    parsed,         \* parser output
    ist,            \* index into StageOrder
    batch,          \* store writes of the current stage, in issue order
    issued,         \* how many of them have been sent to the database
    pending,        \* indices sent and not yet answered
    batch_err,      \* TRUE when one of them failed
    stored_symbols, \* Vec returned by store_symbols
    stored_blocks,  \* Vec returned by create_doc_blocks
    doc_source_id,  \* Option<String> returned by create_doc_source_if_needed
    documents_edge_count,
    ireturn,        \* value returned by the call
    \* ---- the tenant database
    next_uuid,      \* ids handed out by Uuid::new_v4
    db,             \* table name -> rows
    \* ---- history
    wlog,           \* store writes in the order they were sent
    acked,          \* number of writes the database has carried out
    calls,          \* the finished ingest calls, oldest first
    \* ---- one query of a client
    qres            \* the last query and its answer

ingVars == <<req, ipc, parsed, ist, batch, issued, pending, batch_err,
             stored_symbols, stored_blocks, doc_source_id, documents_edge_count,
             ireturn, next_uuid, db, wlog, acked,
             calls, qres>>

VARIABLES
    \* ---- store operations running concurrently on one SolutionHandle
    top,            \* task -> the operation it runs
    tpc,            \* task -> its position
    trow,           \* task -> the project record its upsert_project will write
    tret,           \* task -> value returned
    tcount,         \* task -> operations it has finished
    schema_ready,   \* the OnceCell of the handle is set
    schema_permit,  \* task holding the cell's init permit (NoProc when free)
    dbstate,        \* "fresh" | "required" | "full" | "removed"
    \* ---- history
    bootstrap_runs, \* times the required schema script was sent
    premature,      \* operations that sent a statement while the cell was unset
    applied,        \* writes in the order the database carried them out
    tlog            \* finished operations, oldest first

taskVars == <<top, tpc, trow, tret, tcount, schema_ready, schema_permit, dbstate,
              bootstrap_runs, premature, applied, tlog>>

VARIABLES
    \* ---- one request on the HTTP ingest endpoint
    hpc,            \* handler position: "idle" | "control" | "answered"
    hresp,          \* the response
    parser          \* the parser on the blocking executor:
                    \* "none" | "running" | "finished"

httpVars == <<hpc, hresp, parser>>

VARIABLES
    \* ---- RustdocJsonParser::parse walking a crate index
    crate_doc,      \* [root, index]: item id -> [crate_id, kind, items]
    stack,          \* the calls of visit_module / visit_item in progress
    state_seen,     \* ParserState.seen
    state_symbols,  \* symbols added by visit_module / visit_item, in order
    \* ---- history
    entered,        \* item id -> times a call went past its three guards
    walked          \* "no" | "running" | "returned"

rustVars == <<crate_doc, stack, state_seen, state_symbols, entered, walked>>

vars == <<regVars, ingVars, taskVars, httpVars, rustVars>>

NoResult == [kind |-> "none", val |-> 0]

InitRegistry ==
    /\ ttl \in TtlChoices
    /\ max_entries \in MaxEntriesChoices
    /\ now = 0
    /\ entries = [t \in Tenants |-> NoEntry]
    /\ readers = {}
    /\ writer = NoProc
    /\ handle = [e \in Callers |-> NoHandle]
    /\ permit = [e \in Callers |-> NoProc]
    /\ last_used_ms = [e \in Callers |-> 0]
    /\ pc = [c \in Callers |-> "idle"]
    /\ solution = [c \in Callers |-> 0]
    /\ entry = [c \in Callers |-> NoEntry]
    /\ result = [c \in Callers |-> NoResult]
    /\ erun = NoProc
    /\ epc = "idle"
    /\ enow = 0
    /\ eret = -1
    /\ sweeper = "unspawned"
    /\ registry_alive = TRUE
    /\ invoked = {}
    /\ evicted = {}
    /\ overlap = [c \in Callers |-> {}]
    /\ touched_at = [c \in Callers |-> -1]

(***************************************************************************)
(* Helpers                                                                 *)
(***************************************************************************)
MapLen(m) == Cardinality({t \in Tenants : m[t] # NoEntry})

\* u64::saturating_sub
SaturatingSub(a, b) == IF a >= b THEN a - b ELSE 0

\* SolutionEntry::idle_for
idle_for(e, now_ms) == SaturatingSub(now_ms, last_used_ms[e])

InFlight(c) == pc[c] \notin {"idle", "done"}

Tick ==
    /\ now < MaxTime
    /\ now' = now + 1
    /\ UNCHANGED <<ttl, max_entries, entries, readers, writer, handle, permit,
                   last_used_ms, pc, solution, entry, result, erun, epc, enow, eret,
                   sweeper, registry_alive, invoked, evicted, overlap, touched_at,
                   ingVars, taskVars, httpVars, rustVars>>

(***************************************************************************)
(* get_or_init                                                             *)
(***************************************************************************)
\* a task calls registry.get_or_init(t)
StartCall(c, t) ==
    /\ registry_alive
    /\ pc[c] = "idle"
    /\ pc' = [pc EXCEPT ![c] = "read"]
    /\ solution' = [solution EXCEPT ![c] = t]
    /\ overlap' = [overlap EXCEPT ![c] = {d \in Callers : InFlight(d)}]
    /\ UNCHANGED <<ttl, max_entries, now, entries, readers, writer, handle, permit,
                   last_used_ms, entry, result, erun, epc, enow, eret,
                   sweeper, registry_alive, invoked, evicted, touched_at,
                   ingVars, taskVars, httpVars, rustVars>>

\* holders of the read guard once the block of lines 194-197 has been left
ReadersAfterLookup(c) == readers \ {c}

\* lines 194-197: entries.read().await; map.get(solution).cloned()
ReadLookup(c) ==
    /\ pc[c] = "read"
    /\ writer = NoProc
    /\ entry' = [entry EXCEPT ![c] = entries[solution[c]]]
    /\ readers' = ReadersAfterLookup(c)
    /\ pc' = [pc EXCEPT ![c] =
                IF entries[solution[c]] # NoEntry THEN "touch" ELSE "write"]
    /\ UNCHANGED <<ttl, max_entries, now, entries, writer, handle, permit,
                   last_used_ms, solution, result, erun, epc, enow, eret,
                   sweeper, registry_alive, invoked, evicted, overlap, touched_at,
                   ingVars, taskVars, httpVars, rustVars>>

\* variant: no capacity test
CapacityNeverReached(m) == FALSE

\* variant: only entries whose handle is built count toward capacity
CapacityReachedCountsBuilt(m) ==
    /\ max_entries # NoMax
    /\ Cardinality({t \in Tenants : m[t] # NoEntry /\ handle[m[t]] # NoHandle}) >= max_entries

\* variant: the capacity test admits one entry too many
CapacityReachedOffByOne(m) == max_entries # NoMax /\ MapLen(m) > max_entries

\* the capacity test of the slow path
CapacityReached(m) == max_entries # NoMax /\ MapLen(m) >= max_entries

\* variant: the write guard lives until get_or_init returns
WriterHeldThroughBuild(c) == c

\* holder of the write guard once the block of lines 201-215 has been left
WriterAfterInsert(c) == NoProc

\* lines 202-214: entries.write().await; double-check, capacity check,
\* insert of a fresh placeholder
WriteInsert(c) ==
    /\ pc[c] = "write"
    /\ writer = NoProc
    /\ readers = {}
    /\ writer' = WriterAfterInsert(c)
    /\ IF entries[solution[c]] # NoEntry
       THEN /\ entry' = [entry EXCEPT ![c] = entries[solution[c]]]
            /\ pc' = [pc EXCEPT ![c] = "touch"]
            /\ UNCHANGED <<entries, last_used_ms, result>>
       ELSE IF CapacityReached(entries)
       THEN /\ result' = [result EXCEPT ![c] = [kind |-> "capacity", val |-> max_entries]]
            /\ pc' = [pc EXCEPT ![c] = "done"]
            /\ UNCHANGED <<entries, last_used_ms, entry>>
       ELSE /\ entries' = [entries EXCEPT ![solution[c]] = c]
            /\ last_used_ms' = [last_used_ms EXCEPT ![c] = now]
            /\ entry' = [entry EXCEPT ![c] = c]
            /\ pc' = [pc EXCEPT ![c] = "touch"]
            /\ UNCHANGED result
    /\ UNCHANGED <<ttl, max_entries, now, readers, handle, permit,
                   solution, epc, erun, enow, eret,
                   sweeper, registry_alive, invoked, evicted, overlap, touched_at,
                   ingVars, taskVars, httpVars, rustVars>>

\* variant: only an entry without a handle is touched (cache hits are not)
touchOnlyUnbuilt(e) ==
    IF handle[e] = NoHandle THEN [last_used_ms EXCEPT ![e] = now] ELSE last_used_ms

\* SolutionEntry::touch
touch(e) == [last_used_ms EXCEPT ![e] = now]

\* entry.touch()
Touch(c) ==
    /\ pc[c] = "touch"
    /\ last_used_ms' = touch(entry[c])
    /\ touched_at' = [touched_at EXCEPT ![c] = now]
    /\ pc' = [pc EXCEPT ![c] = "init"]
    /\ UNCHANGED <<ttl, max_entries, now, entries, readers, writer, handle, permit,
                   solution, entry, result, erun, epc, enow, eret,
                   sweeper, registry_alive, invoked, evicted, overlap,
                   ingVars, taskVars, httpVars, rustVars>>

\* variant: the initializer runs without taking the permit
CellFreeAlways(e) == TRUE

\* OnceCell: the initializer runs under the cell's single permit
CellFree(e) == permit[e] = NoProc

\* entry.handle.get_or_try_init(..): return the value when set, else take the
\* cell's permit and invoke the builder; wait while another call holds it
CellEnter(c) ==
    /\ pc[c] = "init"
    /\ IF handle[entry[c]] # NoHandle
       THEN /\ result' = [result EXCEPT ![c] = [kind |-> "ok", val |-> handle[entry[c]]]]
            /\ pc' = [pc EXCEPT ![c] = "done"]
            /\ UNCHANGED <<permit, invoked>>
       ELSE /\ CellFree(entry[c])
            /\ permit' = [permit EXCEPT ![entry[c]] = c]
            /\ invoked' = invoked \cup {c}
            /\ pc' = [pc EXCEPT ![c] = "building"]
            /\ UNCHANGED result
    /\ UNCHANGED <<ttl, max_entries, now, entries, readers, writer, handle,
                   last_used_ms, solution, entry, erun, epc, enow, eret,
                   sweeper, registry_alive, evicted, overlap, touched_at,
                   ingVars, taskVars, httpVars, rustVars>>

\* the builder future resolves to Ok(handle): the cell is set, waiters read it
BuildSucceed(c) ==
    /\ pc[c] = "building"
    /\ handle' = [handle EXCEPT ![entry[c]] = c]
    /\ permit' = [permit EXCEPT ![entry[c]] = NoProc]
    /\ result' = [result EXCEPT ![c] = [kind |-> "ok", val |-> c]]
    /\ pc' = [pc EXCEPT ![c] = "done"]
    /\ UNCHANGED <<ttl, max_entries, now, entries, readers, writer,
                   last_used_ms, solution, entry, erun, epc, enow, eret,
                   sweeper, registry_alive, invoked, evicted, overlap, touched_at,
                   ingVars, taskVars, httpVars, rustVars>>

\* variant: a failed build removes the tenant from the map
EntriesAfterFailRemoved(c) == [entries EXCEPT ![solution[c]] = NoEntry]

\* the map after a failed build: get_or_init returns through `?` at line 223
\* and does not go back to the map
EntriesAfterFail(c) == entries

\* the builder future resolves to Err(BuildFailed): the cell stays unset and
\* the permit is released, `?` returns this call's error
BuildFail(c) ==
    /\ pc[c] = "building"
    /\ entries' = EntriesAfterFail(c)
    /\ permit' = [permit EXCEPT ![entry[c]] = NoProc]
    /\ result' = [result EXCEPT ![c] = [kind |-> "failed", val |-> c]]
    /\ pc' = [pc EXCEPT ![c] = "done"]
    /\ UNCHANGED <<ttl, max_entries, now, readers, writer, handle,
                   last_used_ms, solution, entry, erun, epc, enow, eret,
                   sweeper, registry_alive, invoked, evicted, overlap, touched_at,
                   ingVars, taskVars, httpVars, rustVars>>

(***************************************************************************)
(* evict_idle (one run at a time)                                          *)
(***************************************************************************)
\* lines 235-238: return 0 without ttl, else read the clock
EvictBegin(p) ==
    /\ erun = NoProc
    /\ IF ttl = NoTtl
       THEN /\ eret' = 0
            /\ UNCHANGED <<erun, epc, enow>>
       ELSE /\ erun' = p
            /\ enow' = now
            /\ epc' = "write"
            /\ UNCHANGED eret
    /\ UNCHANGED <<ttl, max_entries, now, entries, readers, writer, handle, permit,
                   last_used_ms, pc, solution, entry, result,
                   sweeper, registry_alive, invoked, evicted, overlap, touched_at,
                   ingVars, taskVars, httpVars, rustVars>>

\* a task calls registry.evict_idle() directly
EvictStart ==
    /\ registry_alive
    /\ EvictBegin(UserEvictId)

\* variant: an entry idle for exactly ttl is dropped
RetainedStrict(e, now_ms) == idle_for(e, now_ms) < ttl

\* the predicate of map.retain
Retained(e, now_ms) == idle_for(e, now_ms) <= ttl

\* lines 239-242: entries.write().await; map.retain(..);
\* before.saturating_sub(map.len())
EvictRetain ==
    /\ epc = "write"
    /\ writer = NoProc
    /\ readers = {}
    /\ entries' = [t \in Tenants |->
                     IF entries[t] # NoEntry /\ Retained(entries[t], enow)
                     THEN entries[t] ELSE NoEntry]
    /\ eret' = SaturatingSub(MapLen(entries), MapLen(entries'))
    /\ evicted' = evicted \cup {t \in Tenants : entries[t] # NoEntry /\ entries'[t] = NoEntry}
    /\ writer' = NoProc
    /\ erun' = NoProc
    /\ epc' = "idle"
    /\ UNCHANGED <<ttl, max_entries, now, readers, handle, permit,
                   last_used_ms, pc, solution, entry, result, enow,
                   sweeper, registry_alive, invoked, overlap, touched_at,
                   ingVars, taskVars, httpVars, rustVars>>

(***************************************************************************)
(* spawn_sweeper and registry handles                                      *)
(***************************************************************************)
\* variant: the task is spawned whether or not ttl is set
SpawnedRegardlessOfTtl == "running"

\* state of the sweeper after spawn_sweeper: None without ttl, else the
\* spawned task, which owns its clone of the registry
Spawned == IF ttl = NoTtl THEN "none" ELSE "running"

SpawnSweeper ==
    /\ registry_alive
    /\ sweeper = "unspawned"
    /\ sweeper' = Spawned
    /\ UNCHANGED <<ttl, max_entries, now, entries, readers, writer, handle, permit,
                   last_used_ms, pc, solution, entry, result, erun, epc, enow, eret,
                   registry_alive, invoked, evicted, overlap, touched_at,
                   ingVars, taskVars, httpVars, rustVars>>

\* ticker.tick().await resolves; the loop body calls evict_idle
SweepTick ==
    /\ sweeper = "running"
    /\ EvictBegin(SweeperId)

\* every registry handle held outside the sweeper task is dropped
\* (get_or_init and evict_idle borrow the handle for the whole call)
DropRegistry ==
    /\ registry_alive
    /\ \A c \in Callers : ~InFlight(c)
    /\ erun # UserEvictId
    /\ registry_alive' = FALSE
    /\ UNCHANGED <<ttl, max_entries, now, entries, readers, writer, handle, permit,
                   last_used_ms, pc, solution, entry, result, erun, epc, enow, eret,
                   sweeper, invoked, evicted, overlap, touched_at,
                   ingVars, taskVars, httpVars, rustVars>>

Next ==
    \/ Tick
    \/ \E c \in Callers, t \in Tenants : StartCall(c, t)
    \/ \E c \in Callers : ReadLookup(c)
    \/ \E c \in Callers : WriteInsert(c)
    \/ \E c \in Callers : Touch(c)
    \/ \E c \in Callers : CellEnter(c)
    \/ \E c \in Callers : BuildSucceed(c)
    \/ \E c \in Callers : BuildFail(c)
    \/ EvictStart
    \/ EvictRetain
    \/ SpawnSweeper
    \/ SweepTick
    \/ DropRegistry

(***************************************************************************)
(* Part 2: ingestion                                                       *)
(*                                                                         *)
(* Strings that the code takes apart or puts together (symbol keys,        *)
(* record ids, qualified names) are sequences of tokens; Option<T> is a    *)
(* sequence of length 0 or 1.                                              *)
(***************************************************************************)
MaxMembers == 3     \* documented items in one payload

NoneOpt == <<>>
Some(x) == <<x>>
IsSome(o) == Len(o) > 0
Unwrap(o) == o[1]

RECURSIVE ConcatAll(_)
ConcatAll(ss) == IF ss = <<>> THEN <<>> ELSE Head(ss) \o ConcatAll(Tail(ss))

\* variant: nothing is trimmed
TrimNothing(s) == s

\* str::trim on the project ids and aliases of the model
Trim(s) == IF s = " " THEN "" ELSE IF s = " ACME " THEN "ACME" ELSE s

\* schema.rs
make_symbol_key(language, project_id, local_id) ==
    <<language, "|", project_id, "|">> \o local_id

make_csharp_symbol_key(project_id, doc_id) ==
    make_symbol_key("csharp", project_id, doc_id)

\* surreal.rs / ingest.rs: "{table}:{id}"
make_record_id(table, id) == <<table, ":">> \o id

\* Uuid::new_v4().to_string(): the n-th fresh id
Uuid(n) == <<"uuid", ToString(n)>>

StartsWith(s, prefix) ==
    Len(s) >= Len(prefix) /\ SubSeq(s, 1, Len(prefix)) = prefix

make_scoped_ingest_id_unscoped(project_id, ingest_id) == ingest_id

make_scoped_ingest_id(project_id, ingest_id) ==
    IF StartsWith(ingest_id, <<project_id, "::">>)
    THEN ingest_id
    ELSE <<project_id, "::">> \o ingest_id

\* str::rsplit_once("::") : the part before the last "::", if there is one
RsplitOnceParent(qualified) ==
    LET at == {i \in 1..Len(qualified) : qualified[i] = "::"}
    IN  IF at = {} THEN NoneOpt
        ELSE Some(SubSeq(qualified, 1,
                         (CHOOSE i \in at : \A j \in at : j <= i) - 1))

\* HashMap built by inserting the pairs in order (a later insert replaces an
\* earlier one with the same key); looked up at k
MapGet(pairs, k) ==
    LET at == {i \in 1..Len(pairs) : pairs[i].key = k}
    IN  IF at = {} THEN NoneOpt
        ELSE Some(pairs[CHOOSE i \in at : \A j \in at : j <= i].val)

(***************************************************************************)
(* Parsed payloads.  A payload is a list of documented items; the parsers  *)
(* emit one Symbol per item and one DocBlock per item that has docs.       *)
(***************************************************************************)
Symbol(project_id, language, local_id, qualified, summary, ret, params) ==
    [id |-> NoneOpt, project_id |-> project_id, language |-> language,
     symbol_key |-> make_symbol_key(language, project_id, local_id),
     qualified_name |-> qualified, doc_summary |-> summary,
     return_type |-> ret, params |-> params]

DocBlock(project_id, ingest_id, language, local_id, summary, see_also, inherit, exceptions) ==
    [id |-> NoneOpt, project_id |-> project_id, ingest_id |-> ingest_id,
     symbol_key |-> Some(make_symbol_key(language, project_id, local_id)),
     language |-> language, summary |-> summary, see_also |-> see_also,
     inherit_doc |-> inherit, exceptions |-> exceptions]

SeeAlso(target, target_kind) == [target |-> target, target_kind |-> target_kind]

\* items a C# XML file can hold: <member name=...> with its children
CsharpItems == 1..4

CsharpSymbol(p, m) ==
    CASE m = 1 -> Symbol(p, "csharp", <<"T:", "Foo">>, Some(<<"Foo">>), "a", NoneOpt, <<>>)
      [] m = 2 -> Symbol(p, "csharp", <<"T:", "Foo">>, Some(<<"Foo">>), "b", NoneOpt, <<>>)
      [] m = 3 -> Symbol(p, "csharp", <<"M:", "Foo", ".", "Bar">>,
                         Some(<<"Foo", ".", "Bar">>), "c", NoneOpt, <<>>)
      [] m = 4 -> Symbol(p, "csharp", <<"T:", "Baz">>, Some(<<"Baz">>), "d", NoneOpt, <<>>)

CsharpBlock(p, g, m) ==
    CASE m = 1 -> DocBlock(p, g, "csharp", <<"T:", "Foo">>, "a", <<>>, NoneOpt, <<>>)
      [] m = 2 -> DocBlock(p, g, "csharp", <<"T:", "Foo">>, "b", <<>>, NoneOpt, <<>>)
      [] m = 3 -> DocBlock(p, g, "csharp", <<"M:", "Foo", ".", "Bar">>, "c",
                           <<SeeAlso(<<"T:", "Foo">>, Some("cref"))>>,
                           Some([cref |-> Some(<<"T:", "Foo">>), path |-> NoneOpt]),
                           <<Some(make_csharp_symbol_key(p, <<"T:", "Foo">>))>>)
      [] m = 4 -> DocBlock(p, g, "csharp", <<"T:", "Baz">>, "d",
                           <<SeeAlso(<<"T:", "Unknown">>, Some("cref"))>>,
                           NoneOpt, <<>>)

\* items a rustdoc JSON index can hold
RustItems == 1..4

RustKey(p, path) == make_symbol_key("rust", p, path)

RustSymbol(p, m) ==
    CASE m = 1 -> Symbol(p, "rust", <<"m", "::", "S">>, Some(<<"m", "::", "S">>),
                         "a", NoneOpt, <<>>)
      [] m = 2 -> Symbol(p, "rust", <<"m", "::", "S">>, Some(<<"m", "::", "S">>),
                         "b", NoneOpt, <<>>)
      [] m = 3 -> Symbol(p, "rust", <<"m", "::", "S", "::", "f">>,
                         Some(<<"m", "::", "S", "::", "f">>), "c",
                         Some(RustKey(p, <<"m", "::", "S">>)),
                         <<[name |-> "x",
                            type_ref |-> Some(RustKey(p, <<"m", "::", "T">>))]>>)
      [] m = 4 -> Symbol(p, "rust", <<"m", "::", "T">>, Some(<<"m", "::", "T">>),
                         "", NoneOpt, <<>>)

\* item 4 has no docs, so no doc block
RustHasDocs(m) == m # 4

RustBlock(p, g, m) ==
    CASE m = 1 -> DocBlock(p, g, "rust", <<"m", "::", "S">>, "a", <<>>, NoneOpt, <<>>)
      [] m = 2 -> DocBlock(p, g, "rust", <<"m", "::", "S">>, "b", <<>>, NoneOpt, <<>>)
      [] m = 3 -> DocBlock(p, g, "rust", <<"m", "::", "S", "::", "f">>, "c",
                           <<SeeAlso(<<"m", "::", "S">>, NoneOpt)>>, NoneOpt, <<>>)
      [] m = 4 -> DocBlock(p, g, "rust", <<"m", "::", "T">>, "", <<>>, NoneOpt, <<>>)

\* impl blocks of the crate: type path -> trait paths
RustTraitImpls(items) ==
    IF \E i \in 1..Len(items) : items[i] \in {1, 2}
    THEN <<[type_path |-> <<"m", "::", "S">>, traits |-> <<(<<"m", "::", "T">>)>>]>>
    ELSE <<>>

\* CsharpXmlParser::parse
ParseCsharp(r) ==
    [symbols |-> [i \in 1..Len(r.items) |-> CsharpSymbol(r.project_id, r.items[i])],
     doc_blocks |-> [i \in 1..Len(r.items) |->
                        CsharpBlock(r.project_id, r.ingest_id, r.items[i])],
     primary_name |-> r.primary_name,
     trait_impls |-> <<>>]

\* RustdocJsonParser::parse
ParseRust(r) ==
    [symbols |-> [i \in 1..Len(r.items) |-> RustSymbol(r.project_id, r.items[i])],
     doc_blocks |-> ConcatAll([i \in 1..Len(r.items) |-> IF RustHasDocs(r.items[i])
                                   THEN <<RustBlock(r.project_id, r.ingest_id, r.items[i])>>
                                   ELSE <<>>]),
     primary_name |-> r.primary_name,
     trait_impls |-> RustTraitImpls(r.items)]

Parse(r) == IF r.kind = "csharp" THEN ParseCsharp(r) ELSE ParseRust(r)

(***************************************************************************)
(* ingest.rs: pure helpers                                                 *)
(***************************************************************************)
RECURSIVE DedupeFrom(_, _, _, _)
DedupeFrom(symbols, i, seen, deduped) ==
    IF i > Len(symbols) THEN deduped
    ELSE IF symbols[i].symbol_key \in seen
         THEN DedupeFrom(symbols, i + 1, seen, deduped)
         ELSE DedupeFrom(symbols, i + 1, seen \cup {symbols[i].symbol_key},
                         Append(deduped, symbols[i]))

RECURSIVE DedupeKeepLastFrom(_, _, _)
DedupeKeepLastFrom(symbols, i, deduped) ==
    IF i > Len(symbols) THEN deduped
    ELSE LET later == \E j \in (i + 1)..Len(symbols) :
                          symbols[j].symbol_key = symbols[i].symbol_key
         IN  DedupeKeepLastFrom(symbols, i + 1,
                 IF later THEN deduped ELSE Append(deduped, symbols[i]))

dedupe_symbols_keep_last(symbols) == DedupeKeepLastFrom(symbols, 1, <<>>)

\* dedupe_symbols
dedupe_symbols(symbols) == DedupeFrom(symbols, 1, {}, <<>>)

Relation(in_id, out_id, project_id, ingest_id, kind) ==
    [in_id |-> in_id, out_id |-> out_id, project_id |-> project_id,
     ingest_id |-> ingest_id, kind |-> kind]

\* the symbol_by_key map of the builders: symbol_key -> id
SymbolByKey(symbols, k) ==
    MapGet(ConcatAll([i \in 1..Len(symbols) |->
               IF IsSome(symbols[i].id)
               THEN <<[key |-> symbols[i].symbol_key, val |-> Unwrap(symbols[i].id)]>>
               ELSE <<>>]), k)

\* the symbol_by_qualified map: qualified_name -> id
SymbolByQualified(symbols, q) ==
    MapGet(ConcatAll([i \in 1..Len(symbols) |->
               IF IsSome(symbols[i].id) /\ IsSome(symbols[i].qualified_name)
               THEN <<[key |-> Unwrap(symbols[i].qualified_name),
                       val |-> Unwrap(symbols[i].id)]>>
               ELSE <<>>]), q)

resolve_symbol_reference_unchecked(target, language, project_id, symbols) ==
    IF IsSome(SymbolByKey(symbols, target)) THEN SymbolByKey(symbols, target)
    ELSE IF language = "csharp"
         THEN Some(make_csharp_symbol_key(project_id, target))
    ELSE IF language = "rust"
         THEN Some(make_symbol_key("rust", project_id, target))
    ELSE NoneOpt

\* resolve_symbol_reference
resolve_symbol_reference(target, language, project_id, symbols) ==
    IF IsSome(SymbolByKey(symbols, target)) THEN SymbolByKey(symbols, target)
    ELSE IF language = "csharp"
         THEN SymbolByKey(symbols, make_csharp_symbol_key(project_id, target))
    ELSE IF language = "rust"
         THEN SymbolByKey(symbols, make_symbol_key("rust", project_id, target))
    ELSE NoneOpt

build_documents_edges_reversed(symbols, blocks, project_id, ingest_id) ==
    ConcatAll([i \in 1..Len(blocks) |->
        LET block == blocks[i]
            symbol_id == IF IsSome(block.symbol_key)
                         THEN SymbolByKey(symbols, Unwrap(block.symbol_key))
                         ELSE NoneOpt
        IN  IF IsSome(block.id) /\ IsSome(symbol_id)
            THEN <<Relation(make_record_id("symbol", Unwrap(symbol_id)),
                            make_record_id("doc_block", Unwrap(block.id)),
                            project_id, ingest_id, NoneOpt)>>
            ELSE <<>>])

\* build_documents_edges
build_documents_edges(symbols, blocks, project_id, ingest_id) ==
    ConcatAll([i \in 1..Len(blocks) |->
        LET block == blocks[i]
            symbol_id == IF IsSome(block.symbol_key)
                         THEN SymbolByKey(symbols, Unwrap(block.symbol_key))
                         ELSE NoneOpt
        IN  IF IsSome(block.id) /\ IsSome(symbol_id)
            THEN <<Relation(make_record_id("doc_block", Unwrap(block.id)),
                            make_record_id("symbol", Unwrap(symbol_id)),
                            project_id, ingest_id, NoneOpt)>>
            ELSE <<>>])

build_observed_in_edges_per_block(symbols, project_id, ingest_id, source_id) ==
    ConcatAll([i \in 1..Len(symbols) |->
        IF IsSome(symbols[i].id) /\ symbols[i].doc_summary # ""
        THEN <<Relation(make_record_id("symbol", Unwrap(symbols[i].id)),
                        make_record_id("doc_source", source_id),
                        project_id, ingest_id, Some("doc_source"))>>
        ELSE <<>>])

\* build_observed_in_edges
build_observed_in_edges(symbols, project_id, ingest_id, source_id) ==
    ConcatAll([i \in 1..Len(symbols) |->
        IF IsSome(symbols[i].id)
        THEN <<Relation(make_record_id("symbol", Unwrap(symbols[i].id)),
                        make_record_id("doc_source", source_id),
                        project_id, ingest_id, Some("doc_source"))>>
        ELSE <<>>])

\* build_symbol_relations, one family at a time
ParentOf(symbols, symbol) ==
    IF IsSome(symbol.qualified_name)
          /\ IsSome(RsplitOnceParent(Unwrap(symbol.qualified_name)))
    THEN SymbolByQualified(symbols,
             Unwrap(RsplitOnceParent(Unwrap(symbol.qualified_name))))
    ELSE NoneOpt

TypeRefTarget(symbols, type_ref) ==
    IF IsSome(type_ref) THEN SymbolByKey(symbols, Unwrap(type_ref)) ELSE NoneOpt

TraitsOf(trait_impls, symbol) ==
    IF IsSome(symbol.qualified_name)
    THEN ConcatAll([i \in 1..Len(trait_impls) |->
            IF trait_impls[i].type_path = Unwrap(symbol.qualified_name)
            THEN trait_impls[i].traits ELSE <<>>])
    ELSE <<>>

build_symbol_relations(symbols, project_id, ingest_id, trait_impls) ==
    LET PerSymbol(f(_, _)) ==
            ConcatAll([i \in 1..Len(symbols) |->
                IF IsSome(symbols[i].id)
                THEN f(symbols[i], make_record_id("symbol", Unwrap(symbols[i].id)))
                ELSE <<>>])
        Edge(a, b, kind) == <<Relation(a, b, project_id, ingest_id, kind)>>
    IN  [member_of |-> PerSymbol(LAMBDA s, rec :
            IF IsSome(ParentOf(symbols, s))
            THEN Edge(rec, make_record_id("symbol", Unwrap(ParentOf(symbols, s))), NoneOpt)
            ELSE <<>>),
         contains |-> PerSymbol(LAMBDA s, rec :
            IF IsSome(ParentOf(symbols, s))
            THEN Edge(make_record_id("symbol", Unwrap(ParentOf(symbols, s))), rec, NoneOpt)
            ELSE <<>>),
         returns |-> PerSymbol(LAMBDA s, rec :
            IF IsSome(TypeRefTarget(symbols, s.return_type))
            THEN Edge(rec, make_record_id("symbol",
                               Unwrap(TypeRefTarget(symbols, s.return_type))), NoneOpt)
            ELSE <<>>),
         param_types |-> PerSymbol(LAMBDA s, rec :
            ConcatAll([j \in 1..Len(s.params) |->
                IF IsSome(TypeRefTarget(symbols, s.params[j].type_ref))
                THEN Edge(rec, make_record_id("symbol",
                              Unwrap(TypeRefTarget(symbols, s.params[j].type_ref))),
                          Some(s.params[j].name))
                ELSE <<>>])),
         implements |-> PerSymbol(LAMBDA s, rec :
            LET traits == TraitsOf(trait_impls, s)
            IN  ConcatAll([j \in 1..Len(traits) |->
                    LET trait_id == SymbolByKey(symbols,
                                       make_symbol_key("rust", project_id, traits[j]))
                    IN  IF IsSome(trait_id)
                        THEN Edge(rec, make_record_id("symbol", Unwrap(trait_id)),
                                  Some("trait_impl"))
                        ELSE <<>>]))]

\* SymbolRelations::is_empty
SymbolRelationsEmpty(rel) ==
    /\ rel.member_of = <<>> /\ rel.contains = <<>> /\ rel.returns = <<>>
    /\ rel.param_types = <<>> /\ rel.implements = <<>>

\* build_doc_block_relations
build_doc_block_relations(symbols, blocks, project_id, ingest_id) ==
    LET PerBlock(f(_, _)) ==
            ConcatAll([i \in 1..Len(blocks) |->
                LET symbol_id == IF IsSome(blocks[i].symbol_key)
                                 THEN SymbolByKey(symbols, Unwrap(blocks[i].symbol_key))
                                 ELSE NoneOpt
                IN  IF IsSome(symbol_id)
                    THEN f(blocks[i], make_record_id("symbol", Unwrap(symbol_id)))
                    ELSE <<>>])
        Resolve(b, target) ==
            resolve_symbol_reference(target, b.language, project_id, symbols)
        Edge(a, b, kind) == <<Relation(a, b, project_id, ingest_id, kind)>>
    IN  [see_also |-> PerBlock(LAMBDA b, rec :
            ConcatAll([j \in 1..Len(b.see_also) |->
                IF IsSome(Resolve(b, b.see_also[j].target))
                THEN Edge(rec, make_record_id("symbol",
                                   Unwrap(Resolve(b, b.see_also[j].target))),
                          b.see_also[j].target_kind)
                ELSE <<>>])),
         inherits |-> PerBlock(LAMBDA b, rec :
            IF IsSome(b.inherit_doc)
            THEN LET inherit == Unwrap(b.inherit_doc)
                     target == IF IsSome(inherit.cref) THEN inherit.cref ELSE inherit.path
                 IN  IF IsSome(target) /\ IsSome(Resolve(b, Unwrap(target)))
                     THEN Edge(rec, make_record_id("symbol",
                                        Unwrap(Resolve(b, Unwrap(target)))),
                               Some("inheritdoc"))
                     ELSE <<>>
            ELSE <<>>),
         references |-> PerBlock(LAMBDA b, rec :
            ConcatAll([j \in 1..Len(b.exceptions) |->
                IF IsSome(TypeRefTarget(symbols, b.exceptions[j]))
                THEN Edge(rec, make_record_id("symbol",
                                   Unwrap(TypeRefTarget(symbols, b.exceptions[j]))),
                          Some("exception"))
                ELSE <<>>]))]

\* DocBlockRelations::is_empty
DocBlockRelationsEmpty(rel) ==
    rel.see_also = <<>> /\ rel.inherits = <<>> /\ rel.references = <<>>

(***************************************************************************)
(* The writes of one ingest, stage by stage                                *)
(***************************************************************************)
Tables == {"project", "symbol", "doc_block", "doc_source", "ingest",
           "documents", "member_of", "contains", "returns", "param_type",
           "implements", "see_also", "inherits", "references", "observed_in"}

EntityTables == {"project", "symbol", "doc_block", "doc_source", "ingest"}

Write(table, data) == [table |-> table, data |-> data]

Writes(table, rows) == [i \in 1..Len(rows) |-> Write(table, rows[i])]

StageOrderContainsFirst ==
    <<"project", "symbols", "doc_blocks", "doc_source", "documents",
      "contains", "member_of", "returns", "param_type", "implements",
      "see_also", "inherits", "references", "observed_in", "ingest">>

\* the awaits of ingest_csharp_xml / ingest_rustdoc_json and persist_relations
StageOrder ==
    <<"project", "symbols", "doc_blocks", "doc_source", "documents",
      "member_of", "contains", "returns", "param_type", "implements",
      "see_also", "inherits", "references", "observed_in", "ingest">>

\* stages whose writes are awaited one after the other (the others are
\* handed to join_all)
Sequential(stage) == stage \in {"project", "symbols", "doc_source", "ingest"}

\* str::to_lowercase on the names of the model
Lower(s) ==
    IF s \in {"Acme", "ACME"} THEN "acme"
    ELSE IF s = " ACME " THEN " acme "
    ELSE IF s = "Lib" THEN "lib"
    ELSE IF s = "Core" THEN "core"
    ELSE s

merge_aliases_exact(target, incoming) ==
    target \o SelectSeq(incoming, LAMBDA x : \A i \in 1..Len(target) : target[i] # x)

\* metadata.rs merge_aliases
RECURSIVE merge_aliases(_, _)
merge_aliases(target, incoming) ==
    IF incoming = <<>> THEN target
    ELSE LET trimmed == Trim(Head(incoming))
             seen == {Lower(Trim(target[i])) : i \in 1..Len(target)} \ {""}
         IN  IF trimmed = "" \/ Lower(trimmed) \in seen
             THEN merge_aliases(target, Tail(incoming))
             ELSE merge_aliases(Append(target, trimmed), Tail(incoming))

\* metadata.rs push_search_value, over the values in order: trimmed and
\* lowercased, blanks and repeats dropped
RECURSIVE SearchValues(_, _)
SearchValues(ordered, inputs) ==
    IF inputs = <<>> THEN ordered
    ELSE LET lowered == Lower(Trim(Head(inputs)))
         IN  IF Trim(Head(inputs)) = "" \/ \E i \in 1..Len(ordered) : ordered[i] = lowered
             THEN SearchValues(ordered, Tail(inputs))
             ELSE SearchValues(Append(ordered, lowered), Tail(inputs))

\* metadata.rs build_project_search_text: the values that are joined by "|"
build_project_search_text(project) ==
    LET ordered == SearchValues(<<>>, <<project.project_id>> \o project.name
                                          \o project.aliases)
    IN  IF ordered = <<>> THEN NoneOpt ELSE Some(ordered)

\* control upsert_project after its project_id check: read the project,
\* overwrite the fields the request carries, merge the aliases, default the
\* name, rebuild search_text; store upsert_project sets the record id
upsert_project(rows, request) ==
    LET found == {x \in rows : x.id = Some(<<request.project_id>>)}
        old == IF found = {}
               THEN [id |-> NoneOpt, project_id |-> request.project_id,
                     name |-> NoneOpt, language |-> NoneOpt, aliases |-> <<>>,
                     search_text |-> NoneOpt]
               ELSE CHOOSE x \in found : TRUE
        aliases == merge_aliases(old.aliases, request.aliases)
        named == IF IsSome(request.name) THEN request.name ELSE old.name
        project == [old EXCEPT
                       !.name = IF ~IsSome(named) /\ aliases # <<>>
                                THEN Some(aliases[1]) ELSE named,
                       !.language = IF IsSome(request.language)
                                    THEN request.language ELSE old.language,
                       !.aliases = aliases]
    IN  [project EXCEPT !.search_text = build_project_search_text(project),
                        !.id = IF IsSome(project.id) THEN project.id
                               ELSE Some(<<project.project_id>>)]

\* the upsert_project call of an ingest: language and one alias
ProjectRow(rows, project_id, language, alias) ==
    upsert_project(rows, [project_id |-> project_id, name |-> NoneOpt,
                          language |-> Some(language), aliases |-> <<alias>>])

\* variant: the record id is made of the key and the summary
WithSymbolIdPerSummary(symbol) ==
    [symbol EXCEPT !.id = Some(symbol.symbol_key \o <<symbol.doc_summary>>)]

\* store upsert_symbol: the record id is the symbol's id, else its symbol_key
WithSymbolId(symbol) ==
    [symbol EXCEPT !.id = IF IsSome(symbol.id) THEN symbol.id
                          ELSE Some(symbol.symbol_key)]

HasSourceWithoutExtra(r) == r.has_metadata

\* create_doc_source_if_needed: has_source
HasSource(r) == r.has_metadata \/ r.kind = "rust"

SourceKind(kind) == IF kind = "csharp" THEN "csharp_xml" ELSE "rustdoc_json"

\* the store writes of a stage, in the order they are sent
BatchFor(stage, r, pd, rows, symbols, blocks, source_id, uuid0) ==
    LET p == r.project_id
        g == r.ingest_id
        rel == build_symbol_relations(symbols, p, g, pd.trait_impls)
        drel == build_doc_block_relations(symbols, blocks, p, g)
    IN  CASE stage = "project" ->
               IF IsSome(pd.primary_name)
               THEN <<Write("project",
                            ProjectRow(rows, p, r.kind, Unwrap(pd.primary_name)))>>
               ELSE <<>>
          [] stage = "symbols" ->
               LET deduped == dedupe_symbols(pd.symbols)
               IN  [i \in 1..Len(deduped) |-> Write("symbol", WithSymbolId(deduped[i]))]
          [] stage = "doc_blocks" ->
               [i \in 1..Len(pd.doc_blocks) |->
                   Write("doc_block",
                         [pd.doc_blocks[i] EXCEPT !.id = Some(Uuid(uuid0 + i - 1))])]
          [] stage = "doc_source" ->
               IF HasSource(r)
               THEN <<Write("doc_source",
                            [id |-> Some(Uuid(uuid0)), project_id |-> p,
                             ingest_id |-> g, language |-> Some(r.kind),
                             source_kind |-> Some(SourceKind(r.kind)),
                             has_metadata |-> r.has_metadata,
                             extra |-> IF r.kind = "rust" THEN Some("format") ELSE NoneOpt])>>
               ELSE <<>>
          [] stage = "documents" ->
               Writes("documents", build_documents_edges(symbols, blocks, p, g))
          [] stage = "member_of" ->
               IF SymbolRelationsEmpty(rel) THEN <<>> ELSE Writes("member_of", rel.member_of)
          [] stage = "contains" ->
               IF SymbolRelationsEmpty(rel) THEN <<>> ELSE Writes("contains", rel.contains)
          [] stage = "returns" ->
               IF SymbolRelationsEmpty(rel) THEN <<>> ELSE Writes("returns", rel.returns)
          [] stage = "param_type" ->
               IF SymbolRelationsEmpty(rel) THEN <<>>
               ELSE Writes("param_type", rel.param_types)
          [] stage = "implements" ->
               IF SymbolRelationsEmpty(rel) THEN <<>>
               ELSE Writes("implements", rel.implements)
          [] stage = "see_also" ->
               IF DocBlockRelationsEmpty(drel) THEN <<>>
               ELSE Writes("see_also", drel.see_also)
          [] stage = "inherits" ->
               IF DocBlockRelationsEmpty(drel) THEN <<>>
               ELSE Writes("inherits", drel.inherits)
          [] stage = "references" ->
               IF DocBlockRelationsEmpty(drel) THEN <<>>
               ELSE Writes("references", drel.references)
          [] stage = "observed_in" ->
               IF IsSome(source_id)
               THEN Writes("observed_in",
                           build_observed_in_edges(symbols, p, g, Unwrap(source_id)))
               ELSE <<>>
          [] stage = "ingest" ->
               LET id == IF IsSome(g) THEN make_scoped_ingest_id(p, Unwrap(g))
                         ELSE Uuid(uuid0)
               IN  <<Write("ingest",
                           [id |-> Some(id), project_id |-> p,
                            requested_ingest_id |->
                                IF IsSome(g) /\ Unwrap(g) # id THEN g ELSE NoneOpt])>>

UuidsUsedOnlyByIngest(stage, r, writes) ==
    IF stage = "ingest" /\ ~IsSome(r.ingest_id) THEN Len(writes) ELSE 0

\* fresh ids a stage's writes take from Uuid::new_v4
UuidsUsed(stage, r, writes) ==
    IF stage \in {"doc_blocks", "doc_source"} \/ (stage = "ingest" /\ ~IsSome(r.ingest_id))
    THEN Len(writes) ELSE 0

ApplyInsertOnly(d, w) ==
    IF w.table \in EntityTables
    THEN [d EXCEPT ![w.table] = @ \cup {w.data}]
    ELSE [d EXCEPT ![w.table] =
             @ \cup {[n |-> Cardinality({x \in @ : x.edge = w.data}) + 1,
                      edge |-> w.data]}]

\* the database after a write has been carried out: UPSERT replaces the
\* record with that id, CREATE adds a record, RELATE adds an edge record
Apply(d, w) ==
    IF w.table \in {"project", "symbol", "ingest"}
    THEN [d EXCEPT ![w.table] = {x \in @ : x.id # w.data.id} \cup {w.data}]
    ELSE IF w.table \in {"doc_block", "doc_source"}
    THEN [d EXCEPT ![w.table] = @ \cup {w.data}]
    ELSE [d EXCEPT ![w.table] =
             @ \cup {[n |-> Cardinality({x \in @ : x.edge = w.data}) + 1,
                      edge |-> w.data]}]

\* what the write log keeps of a write
LogEntry(stage, w) ==
    [stage |-> stage, table |-> w.table,
     ref |-> IF w.table \in EntityTables THEN Unwrap(w.data.id) ELSE w.data.in_id]

(***************************************************************************)
(* ingest_csharp_xml / ingest_rustdoc_json                                 *)
(***************************************************************************)
ItemLists(items) == UNION {[1..n -> items] : n \in 0..MaxMembers}

\* requests that pass validation and parse
GoodRequests ==
    UNION {[kind : {k}, project_id : {"p1"}, payload : {"ok"},
            items : ItemLists(IF k = "csharp" THEN CsharpItems ELSE RustItems),
            ingest_id : {NoneOpt, Some(<<"r1">>)},
            has_metadata : BOOLEAN,
            primary_name : {NoneOpt, Some("Acme")}] : k \in {"csharp", "rust"}}

\* requests refused before any write: blank project_id, no payload, or a
\* payload the parser rejects
BadRequests ==
    [kind : {"csharp", "rust"}, project_id : {" ", "p1"},
     payload : {"ok", "missing", "malformed"}, items : {<<>>},
     ingest_id : {NoneOpt}, has_metadata : {FALSE}, primary_name : {NoneOpt}]

Requests == GoodRequests \cup BadRequests

Err(kind) == [kind |-> kind]

ingCallVars == <<stored_symbols, stored_blocks, doc_source_id, documents_edge_count>>

\* no ingest has been started
\* no query has been answered
NoAnswer == [op |-> "none"]

InitIngestIdle ==
    /\ req = [kind |-> "none"]
    /\ ipc = "idle"
    /\ parsed = [symbols |-> <<>>, doc_blocks |-> <<>>, primary_name |-> <<>>,
                 trait_impls |-> <<>>]
    /\ ist = 0
    /\ batch = <<>>
    /\ issued = 0
    /\ pending = {}
    /\ batch_err = FALSE
    /\ stored_symbols = <<>>
    /\ stored_blocks = <<>>
    /\ doc_source_id = <<>>
    /\ documents_edge_count = 0
    /\ ireturn = [kind |-> "none"]
    /\ next_uuid = 1
    /\ db = [t \in Tables |-> {}]
    /\ wlog = <<>>
    /\ acked = 0
    /\ calls = <<>>
    /\ qres = NoAnswer

\* a client calls the ingest operation
BeginIngest(r) ==
    /\ ipc = "idle"
    /\ req' = r
    /\ ipc' = "validate"
    /\ qres' = NoAnswer
    /\ UNCHANGED <<parsed, ist, batch, issued, pending, batch_err, ingCallVars,
                   ireturn, next_uuid, db, wlog, acked, calls, regVars, taskVars, httpVars, rustVars>>

\* lines 87-91 / 180-184
Validate ==
    /\ ipc = "validate"
    /\ IF Trim(req.project_id) = ""
       THEN ireturn' = Err("InvalidInput") /\ ipc' = "done"
       ELSE ireturn' = ireturn /\ ipc' = "resolve"
    /\ UNCHANGED <<req, parsed, ist, batch, issued, pending, batch_err, ingCallVars,
                   next_uuid, db, wlog, acked, calls, qres, regVars, taskVars, httpVars, rustVars>>

\* resolve_ingest_payload
ResolvePayload ==
    /\ ipc = "resolve"
    /\ IF req.payload = "missing"
       THEN ireturn' = Err("InvalidInput") /\ ipc' = "done"
       ELSE ireturn' = ireturn /\ ipc' = "parse"
    /\ UNCHANGED <<req, parsed, ist, batch, issued, pending, batch_err, ingCallVars,
                   next_uuid, db, wlog, acked, calls, qres, regVars, taskVars, httpVars, rustVars>>

\* entering stage number i with the results gathered so far
EnterStage(i, pd, symbols, blocks, source_id) ==
    LET stage == StageOrder[i]
        writes == BatchFor(stage, req, pd, db["project"], symbols, blocks,
                           source_id, next_uuid)
    IN  /\ ist' = i
        /\ batch' = writes
        /\ issued' = 0
        /\ next_uuid' = next_uuid + UuidsUsed(stage, req, writes)

\* parse_async, then on to the first store call
ParsePayload ==
    /\ ipc = "parse"
    /\ IF req.payload = "malformed"
       THEN /\ ireturn' = Err("Parse")
            /\ ipc' = "done"
            /\ UNCHANGED <<parsed, ist, batch, issued, next_uuid>>
       ELSE /\ parsed' = Parse(req)
            /\ ipc' = "stages"
            /\ ireturn' = ireturn
            /\ EnterStage(1, Parse(req), <<>>, <<>>, NoneOpt)
    /\ UNCHANGED <<req, pending, batch_err, ingCallVars, db, wlog, acked, calls, qres, regVars, taskVars, httpVars, rustVars>>

\* the next write of the current store call is sent to the database
IssueWrite ==
    /\ ipc = "stages"
    /\ issued < Len(batch)
    /\ Sequential(StageOrder[ist]) => (pending = {} /\ ~batch_err)
    /\ issued' = issued + 1
    /\ pending' = pending \cup {issued + 1}
    /\ wlog' = Append(wlog, LogEntry(StageOrder[ist], batch[issued + 1]))
    /\ UNCHANGED <<req, ipc, parsed, ist, batch, batch_err, ingCallVars, ireturn,
                   next_uuid, db, acked, calls, qres, regVars, taskVars, httpVars, rustVars>>

\* the database carries a write out and answers
WriteOk(i) ==
    /\ ipc = "stages"
    /\ i \in pending
    /\ pending' = pending \ {i}
    /\ db' = Apply(db, batch[i])
    /\ acked' = acked + 1
    /\ UNCHANGED <<req, ipc, parsed, ist, batch, issued, batch_err, ingCallVars,
                   ireturn, next_uuid, wlog, calls, qres, regVars, taskVars, httpVars, rustVars>>

\* the database refuses a write
WriteFail(i) ==
    /\ ipc = "stages"
    /\ i \in pending
    /\ pending' = pending \ {i}
    /\ batch_err' = TRUE
    /\ UNCHANGED <<req, ipc, parsed, ist, batch, issued, ingCallVars, ireturn,
                   next_uuid, db, wlog, acked, calls, qres, regVars, taskVars, httpVars, rustVars>>

\* the report of lines 152-158 / 249-255
Report(pd, symbols, blocks, edge_count, source_id) ==
    [kind |-> "ok", primary_name |-> pd.primary_name,
     symbol_count |-> Len(symbols), doc_block_count |-> Len(blocks),
     documents_edge_count |-> edge_count, doc_source_id |-> source_id]

\* a store call returns an error: `?` ends the ingest
StageFails ==
    /\ ipc = "stages"
    /\ batch_err
    /\ pending = {}
    /\ ireturn' = Err("Store")
    /\ ipc' = "done"
    /\ UNCHANGED <<req, parsed, ist, batch, issued, pending, batch_err, ingCallVars,
                   next_uuid, db, wlog, acked, calls, qres, regVars, taskVars, httpVars, rustVars>>

\* a store call returns Ok: keep its result and go on to the next one, or
\* return the report after the last
StageDone ==
    /\ ipc = "stages"
    /\ ~batch_err
    /\ pending = {}
    /\ issued = Len(batch)
    /\ LET stage == StageOrder[ist]
           rows == [i \in 1..Len(batch) |-> batch[i].data]
           symbols == IF stage = "symbols" THEN rows ELSE stored_symbols
           blocks == IF stage = "doc_blocks" THEN rows ELSE stored_blocks
           source_id == IF stage = "doc_source"
                        THEN (IF batch = <<>> THEN NoneOpt ELSE batch[1].data.id)
                        ELSE doc_source_id
           edge_count == IF stage = "documents" THEN Len(batch)
                         ELSE documents_edge_count
       IN  /\ stored_symbols' = symbols
           /\ stored_blocks' = blocks
           /\ doc_source_id' = source_id
           /\ documents_edge_count' = edge_count
           /\ IF ist < Len(StageOrder)
              THEN /\ EnterStage(ist + 1, parsed, symbols, blocks, source_id)
                   /\ UNCHANGED <<ipc, ireturn>>
              ELSE /\ ireturn' = Report(parsed, symbols, blocks, edge_count, source_id)
                   /\ ipc' = "done"
                   /\ UNCHANGED <<ist, batch, issued, next_uuid>>
    /\ UNCHANGED <<req, parsed, pending, batch_err, db, wlog, acked, calls, qres, regVars, taskVars, httpVars, rustVars>>

IngestNext ==
    \/ \E r \in Requests : BeginIngest(r)
    \/ Validate
    \/ ResolvePayload
    \/ ParsePayload
    \/ IssueWrite
    \/ \E i \in pending : WriteOk(i)
    \/ \E i \in pending : WriteFail(i)
    \/ StageFails
    \/ StageDone

(***************************************************************************)
(* Several ingests, one after the other, on one tenant database            *)
(***************************************************************************)
MaxIngests == 2         \* ingest calls in one behaviour
MaxRepeatMembers == 1   \* documented items in a payload that is ingested again

Projects == {"p1", "p2"}

\* ingest ids a caller supplies: none, a plain one, one already scoped to p1
CallerIds == {NoneOpt, Some(<<"r1">>), Some(<<"p1", "::", "r1">>)}

RepeatItemLists(items) == UNION {[1..n -> items] : n \in 0..MaxRepeatMembers}

RepeatRequests ==
    UNION {[kind : {k}, project_id : Projects, payload : {"ok"},
            items : RepeatItemLists(IF k = "csharp" THEN CsharpItems ELSE RustItems),
            ingest_id : CallerIds,
            has_metadata : BOOLEAN,
            primary_name : {NoneOpt}] : k \in {"csharp", "rust"}}

\* a client calls the ingest operation once more
BeginRepeat(r) ==
    /\ Len(calls) < MaxIngests
    /\ BeginIngest(r)

\* the call has returned: its locals are gone, the database stays
EndCall ==
    /\ ipc = "done"
    /\ calls' = Append(calls, [req |-> req, ret |-> ireturn, symbols |-> stored_symbols,
                               blocks |-> stored_blocks, log |-> wlog,
                               db |-> db])
    /\ ipc' = "idle"
    /\ req' = [kind |-> "none"]
    /\ parsed' = [symbols |-> <<>>, doc_blocks |-> <<>>, primary_name |-> <<>>,
                  trait_impls |-> <<>>]
    /\ ist' = 0
    /\ batch' = <<>>
    /\ issued' = 0
    /\ batch_err' = FALSE
    /\ stored_symbols' = <<>>
    /\ stored_blocks' = <<>>
    /\ doc_source_id' = <<>>
    /\ documents_edge_count' = 0
    /\ ireturn' = [kind |-> "none"]
    /\ wlog' = <<>>
    /\ acked' = 0
    /\ UNCHANGED <<pending, next_uuid, db, qres, regVars, taskVars, httpVars, rustVars>>

(***************************************************************************)
(* Queries of a client between two ingests                                 *)
(***************************************************************************)
\* str::contains("::")
ContainsScope(id) == \E i \in 1..Len(id) : id[i] = "::"

OkVal(v) == [kind |-> "ok", value |-> v]

get_ingest_first_match(d, ingest_id) ==
    LET direct == {x \in d["ingest"] : x.id = Some(ingest_id)}
        requested == {x \in d["ingest"] : x.requested_ingest_id = Some(ingest_id)}
    IN  IF direct # {} THEN OkVal(Some(CHOOSE x \in direct : TRUE))
        ELSE IF ContainsScope(ingest_id) \/ requested = {} THEN OkVal(NoneOpt)
        ELSE OkVal(Some(CHOOSE x \in requested : TRUE))

\* store get_ingest: the record with that id; else, for an id without "::",
\* the records whose extra.requested_ingest_id is that id
get_ingest(d, ingest_id) ==
    LET direct == {x \in d["ingest"] : x.id = Some(ingest_id)}
        requested == {x \in d["ingest"] : x.requested_ingest_id = Some(ingest_id)}
    IN  IF direct # {} THEN OkVal(Some(CHOOSE x \in direct : TRUE))
        ELSE IF ContainsScope(ingest_id) THEN OkVal(NoneOpt)
        ELSE IF Cardinality(requested) > 1 THEN Err("InvalidInput")
        ELSE IF requested = {} THEN OkVal(NoneOpt)
        ELSE OkVal(Some(CHOOSE x \in requested : TRUE))

\* ids a client asks get_ingest for: the caller ids, their scoped forms, and
\* the ids of the stored records
IngestQueryIds ==
    {Unwrap(c) : c \in CallerIds \ {NoneOpt}}
        \cup {<<p, "::">> \o Unwrap(c) : p \in Projects, c \in CallerIds \ {NoneOpt}}
        \cup {Unwrap(x.id) : x \in db["ingest"]}

GetIngest(ingest_id) ==
    /\ ipc = "idle"
    /\ qres' = [op |-> "get_ingest", id |-> ingest_id, ret |-> get_ingest(db, ingest_id)]
    /\ UNCHANGED <<req, ipc, parsed, ist, batch, issued, pending, batch_err, ingCallVars,
                   ireturn, next_uuid, db, wlog, acked, calls, regVars, taskVars, httpVars, rustVars>>

get_symbol_by_key(d, project_id, symbol_key) ==
    LET rows == {x \in d["symbol"] : x.symbol_key = symbol_key}
    IN  IF rows = {} THEN NoneOpt ELSE Some(CHOOSE x \in rows : TRUE)

\* store get_symbol_by_project: SELECT ... WHERE project_id = $project_id AND
\* symbol_key = $symbol_key LIMIT 1
get_symbol_by_project(d, project_id, symbol_key) ==
    LET rows == {x \in d["symbol"] : x.project_id = project_id /\ x.symbol_key = symbol_key}
    IN  IF rows = {} THEN NoneOpt ELSE Some(CHOOSE x \in rows : TRUE)

\* the relation families fetch_symbol_adjacency reads
AdjacencyTables == {"member_of", "contains", "returns", "param_type", "see_also",
                    "inherits", "references", "observed_in"}

\* SymbolAdjacency::default()
AdjacencyDefault ==
    [symbol |-> NoneOpt, doc_blocks |-> {}, doc_sources |-> {},
     relations |-> [t \in AdjacencyTables |-> {}], related_symbols |-> {}]

\* store fetch_symbol_adjacency: the edges of the project that leave the
\* symbol or (observed_in apart) arrive at it
fetch_symbol_adjacency(d, symbol_id, project_id) ==
    LET record == make_record_id("symbol", symbol_id)
    IN  [t \in AdjacencyTables |->
            {x.edge : x \in {y \in d[t] :
                /\ y.edge.project_id = project_id
                /\ \/ y.edge.in_id = record
                   \/ (t # "observed_in" /\ y.edge.out_id = record)}}]

\* control get_symbol_adjacency
get_symbol_adjacency(d, project_id, symbol_key) ==
    LET symbol == get_symbol_by_project(d, project_id, symbol_key)
    IN  IF ~IsSome(symbol) THEN AdjacencyDefault
        ELSE LET s == Unwrap(symbol)
                 doc_blocks == {b \in d["doc_block"] :
                                   b.project_id = project_id
                                       /\ b.symbol_key = Some(symbol_key)}
                 adj == fetch_symbol_adjacency(d, Unwrap(s.id), project_id)
                 ends == UNION {{e.in_id, e.out_id} : e \in UNION {adj[t] : t \in AdjacencyTables}}
                 ingest_ids == {b.ingest_id : b \in doc_blocks} \ {NoneOpt}
             IN  [symbol |-> symbol,
                  doc_blocks |-> doc_blocks,
                  doc_sources |->
                      {x \in d["doc_source"] :
                          /\ x.project_id = project_id
                          /\ \/ x.ingest_id \in ingest_ids
                             \/ make_record_id("doc_source", Unwrap(x.id)) \in ends},
                  relations |-> adj,
                  related_symbols |->
                      {x \in d["symbol"] :
                          /\ x.project_id = project_id
                          /\ make_record_id("symbol", x.symbol_key) \in ends}]

\* keys a client asks for: those of the stored symbols
SymbolQueryKeys == {x.symbol_key : x \in db["symbol"]}

GetSymbol(project_id, symbol_key) ==
    /\ ipc = "idle"
    /\ qres' = [op |-> "get_symbol", project_id |-> project_id, key |-> symbol_key,
                ret |-> get_symbol_by_project(db, project_id, symbol_key)]
    /\ UNCHANGED <<req, ipc, parsed, ist, batch, issued, pending, batch_err, ingCallVars,
                   ireturn, next_uuid, db, wlog, acked, calls, regVars, taskVars, httpVars, rustVars>>

GetSymbolAdjacency(project_id, symbol_key) ==
    /\ ipc = "idle"
    /\ qres' = [op |-> "get_symbol_adjacency", project_id |-> project_id,
                key |-> symbol_key,
                ret |-> get_symbol_adjacency(db, project_id, symbol_key)]
    /\ UNCHANGED <<req, ipc, parsed, ist, batch, issued, pending, batch_err, ingCallVars,
                   ireturn, next_uuid, db, wlog, acked, calls, regVars, taskVars, httpVars, rustVars>>

RepeatNext ==
    \/ \E r \in RepeatRequests : BeginRepeat(r)
    \/ Validate
    \/ ResolvePayload
    \/ ParsePayload
    \/ IssueWrite
    \/ \E i \in pending : WriteOk(i)
    \/ StageDone
    \/ EndCall
    \/ \E id \in IngestQueryIds : GetIngest(id)
    \/ \E p \in Projects, k \in SymbolQueryKeys : GetSymbol(p, k)
    \/ \E p \in Projects, k \in SymbolQueryKeys : GetSymbolAdjacency(p, k)

\* ingests in a row, some of them refused before the first store call
RejectRequests ==
    BadRequests \cup
    UNION {[kind : {k}, project_id : {"p1"}, payload : {"ok"},
            items : RepeatItemLists(IF k = "csharp" THEN CsharpItems ELSE RustItems),
            ingest_id : {NoneOpt},
            has_metadata : BOOLEAN,
            primary_name : {NoneOpt, Some("Acme")}] : k \in {"csharp", "rust"}}

RejectNext ==
    \/ \E r \in RejectRequests : BeginRepeat(r)
    \/ Validate
    \/ ResolvePayload
    \/ ParsePayload
    \/ IssueWrite
    \/ \E i \in pending : WriteOk(i)
    \/ StageDone
    \/ EndCall

(***************************************************************************)
(* search_symbols_advanced                                                 *)
(***************************************************************************)
MaxLimit == 2       \* largest LIMIT a search is called with

\* str::trim on a filter value
RECURSIVE TrimTokens(_)
TrimTokens(s) ==
    IF s = <<>> THEN s
    ELSE IF Head(s) = " " THEN TrimTokens(Tail(s))
    ELSE IF s[Len(s)] = " " THEN TrimTokens(SubSeq(s, 1, Len(s) - 1))
    ELSE s

\* variant: blank filter values are kept
normalize_optional_as_is(value) == value

\* data.rs normalize_optional
normalize_optional(value) ==
    IF ~IsSome(value) THEN NoneOpt
    ELSE IF TrimTokens(Unwrap(value)) = <<>> THEN NoneOpt
    ELSE Some(TrimTokens(Unwrap(value)))

\* SearchSymbolsAdvancedRequest::normalized
normalized(request) ==
    [name |-> normalize_optional(request.name),
     qualified_name |-> normalize_optional(request.qualified_name),
     symbol_key |-> normalize_optional(request.symbol_key),
     signature |-> normalize_optional(request.signature)]

active_filter_count(request) ==
    Cardinality({f \in {"name", "qualified_name", "symbol_key", "signature"} :
                    IsSome(request[f])})

ADVANCED_SEARCH_MIN_FILTERS == 1

\* string::contains(string::lowercase(haystack), string::lowercase(needle))
ContainsLower(haystack, needle) ==
    \E i \in 0..(Len(haystack) - Len(needle)) :
        \A j \in 1..Len(needle) : Lower(haystack[i + j]) = Lower(needle[j])

\* the WHERE clauses the store operation joins with AND
SearchClauses(request) ==
    {"project_id"} \cup {f \in {"name", "qualified_name", "symbol_key", "signature"} :
                            IsSome(request[f])}

\* the rows the SELECT matches.  The symbols of the parsers modelled here
\* carry neither name nor signature, so a clause "name != NONE AND ..." or
\* "signature != NONE AND ..." matches none of them.
SearchMatches(d, project_id, request) ==
    {x \in d["symbol"] :
        /\ x.project_id = project_id
        /\ IsSome(request.symbol_key) => x.symbol_key = Unwrap(request.symbol_key)
        /\ ~IsSome(request.name)
        /\ IsSome(request.qualified_name) =>
               /\ IsSome(x.qualified_name)
               /\ ContainsLower(Unwrap(x.qualified_name), Unwrap(request.qualified_name))
        /\ ~IsSome(request.signature)}

\* the answers the store operation can give: LIMIT keeps any `limit` of the
\* matching rows
store_search_symbols_advanced(d, project_id, request, limit) ==
    {[ret |-> OkVal(rows), queries |-> <<SearchClauses(request)>>] :
        rows \in {s \in SUBSET SearchMatches(d, project_id, request) :
                     \/ s = SearchMatches(d, project_id, request)
                        /\ Cardinality(s) <= limit
                     \/ Cardinality(s) = limit}}

\* the answers of the control-plane operation
search_symbols_advanced(d, project_id, request, limit) ==
    IF active_filter_count(normalized(request)) < ADVANCED_SEARCH_MIN_FILTERS
    THEN {[ret |-> Err("InvalidInput"), queries |-> <<>>]}
    ELSE store_search_symbols_advanced(d, project_id, normalized(request), limit)

\* filter values a client passes: none, blank, or a value
SearchRequests ==
    [name : {NoneOpt, Some(<<" ">>)},
     qualified_name : {NoneOpt, Some(<<" ">>), Some(<<" ", "Foo">>)},
     symbol_key : {NoneOpt, Some(make_csharp_symbol_key("p1", <<"T:", "Foo">>))},
     signature : {NoneOpt, Some(<<" ">>)}]

\* a client calls the control plane, or the store operation itself
SearchSymbolsAdvanced(layer, project_id, request, limit) ==
    /\ ipc = "idle"
    /\ \E answer \in IF layer = "control"
                     THEN search_symbols_advanced(db, project_id, request, limit)
                     ELSE store_search_symbols_advanced(db, project_id, request, limit) :
           qres' = [op |-> "search_symbols_advanced", layer |-> layer,
                    project_id |-> project_id, req |-> request, limit |-> limit,
                    ret |-> answer.ret, queries |-> answer.queries]
    /\ UNCHANGED <<req, ipc, parsed, ist, batch, issued, pending, batch_err, ingCallVars,
                   ireturn, next_uuid, db, wlog, acked, calls, regVars, taskVars, httpVars, rustVars>>

\* ingests that fill the database searched
SearchIngests ==
    [kind : {"csharp"}, project_id : Projects, payload : {"ok"},
     items : {<<>>, <<1>>, <<3>>}, ingest_id : {NoneOpt},
     has_metadata : {FALSE}, primary_name : {NoneOpt}]

SearchNext ==
    \/ \E r \in SearchIngests : BeginRepeat(r)
    \/ Validate
    \/ ResolvePayload
    \/ ParsePayload
    \/ IssueWrite
    \/ \E i \in pending : WriteOk(i)
    \/ StageDone
    \/ EndCall
    \/ \E layer \in {"control", "store"}, p \in Projects, r \in SearchRequests,
          limit \in 1..MaxLimit : SearchSymbolsAdvanced(layer, p, r, limit)

(***************************************************************************)
(* upsert_project, called by a client                                      *)
(***************************************************************************)
MaxAliases == 2     \* aliases in one upsert_project request

\* the same name in three spellings, another name, and a blank
AliasValues == {"Acme", " ACME ", "acme", "Lib", " "}

ProjectRequests ==
    [project_id : {"p1", " "},
     name : {NoneOpt, Some("Core")},
     language : {NoneOpt, Some("rust")},
     aliases : UNION {[1..n -> AliasValues] : n \in 0..MaxAliases}]

UpsertProject(request) ==
    /\ ipc = "idle"
    /\ IF Trim(request.project_id) = ""
       THEN /\ qres' = [op |-> "upsert_project", req |-> request,
                        ret |-> Err("InvalidInput")]
            /\ db' = db
       ELSE LET project == upsert_project(db["project"], request)
            IN  /\ qres' = [op |-> "upsert_project", req |-> request,
                            ret |-> OkVal(project)]
                /\ db' = Apply(db, Write("project", project))
    /\ UNCHANGED <<req, ipc, parsed, ist, batch, issued, pending, batch_err, ingCallVars,
                   ireturn, next_uuid, wlog, acked, calls, regVars, taskVars, httpVars, rustVars>>

ProjectNext == \E request \in ProjectRequests : UpsertProject(request)

(***************************************************************************)
(* Store operations of concurrent tasks on one SolutionHandle.  The store  *)
(* and the control plane of a handle, and their clones, share one          *)
(* schema_ready cell (services.rs:112-116, surreal.rs:45-52).              *)
(***************************************************************************)
NumTasks == 2       \* concurrent tasks
MaxTaskOps == 2     \* operations a task runs, one after the other

Tasks == 1..NumTasks

NoOp == [op |-> "none"]

ingRest == <<req, ipc, parsed, ist, batch, issued, pending, batch_err,
             stored_symbols, stored_blocks, doc_source_id, documents_edge_count,
             ireturn, next_uuid, wlog, acked, calls, qres>>

InitTasks ==
    /\ top = [t \in Tasks |-> NoOp]
    /\ tpc = [t \in Tasks |-> "idle"]
    /\ trow = [t \in Tasks |-> NoneOpt]
    /\ tret = [t \in Tasks |-> [kind |-> "none"]]
    /\ tcount = [t \in Tasks |-> 0]
    /\ schema_ready = FALSE
    /\ schema_permit = NoProc
    /\ dbstate = "fresh"
    /\ bootstrap_runs = 0
    /\ premature = {}
    /\ applied = <<>>
    /\ tlog = <<>>

\* operations of the model: upsert_symbol of one key with two sets of
\* attributes and of another key, upsert_project as an ingest calls it, with
\* two aliases, and remove_database of the handle's database
TaskOps ==
    {[op |-> "upsert_symbol", arg |-> CsharpSymbol("p1", m)] : m \in {1, 2, 4}}
        \cup {[op |-> "upsert_project",
               arg |-> [project_id |-> p, name |-> NoneOpt,
                        language |-> Some("csharp"), aliases |-> <<a>>]] :
                  p \in {"p1"}, a \in {"Acme", "Lib"}}
        \cup {[op |-> "upsert_project",
               arg |-> [project_id |-> " ", name |-> NoneOpt,
                        language |-> Some("csharp"), aliases |-> <<"Acme">>]]}
        \cup {[op |-> "remove_database", arg |-> "test"]}

\* a task calls an operation: remove_database goes to its statement,
\* control upsert_project tests project_id, the others start with
\* ensure_schema
TaskStart(t, o) ==
    /\ tpc[t] = "idle"
    /\ tcount[t] < MaxTaskOps
    /\ top' = [top EXCEPT ![t] = o]
    /\ IF o.op = "remove_database"
       THEN tpc' = [tpc EXCEPT ![t] = "stmt"] /\ tret' = tret
       ELSE IF o.op = "upsert_project" /\ Trim(o.arg.project_id) = ""
       THEN /\ tpc' = [tpc EXCEPT ![t] = "done"]
            /\ tret' = [tret EXCEPT ![t] = Err("InvalidInput")]
       ELSE tpc' = [tpc EXCEPT ![t] = "ensure"] /\ tret' = tret
    /\ UNCHANGED <<trow, tcount, schema_ready, schema_permit, dbstate, bootstrap_runs,
                   premature, applied, tlog, db, ingRest, regVars, httpVars, rustVars>>

\* ensure_schema, cell set: get_or_try_init returns at once
SchemaReady(t) ==
    /\ tpc[t] = "ensure"
    /\ schema_ready
    /\ tpc' = [tpc EXCEPT ![t] = "stmt"]
    /\ UNCHANGED <<top, trow, tret, tcount, schema_ready, schema_permit, dbstate,
                   bootstrap_runs, premature, applied, tlog, db, ingRest, regVars, httpVars, rustVars>>

\* variant: the initializer runs without taking the permit
SchemaPermitFreeAlways(t) == TRUE

\* OnceCell: the initializer runs under the cell's single permit
SchemaPermitFree(t) == schema_permit = NoProc

\* ensure_schema, cell unset: take the permit and send the required script;
\* wait while another task holds the permit
SchemaEnter(t) ==
    /\ tpc[t] = "ensure"
    /\ ~schema_ready
    /\ SchemaPermitFree(t)
    /\ schema_permit' = t
    /\ bootstrap_runs' = bootstrap_runs + 1
    /\ tpc' = [tpc EXCEPT ![t] = "required"]
    /\ UNCHANGED <<top, trow, tret, tcount, schema_ready, dbstate,
                   premature, applied, tlog, db, ingRest, regVars, httpVars, rustVars>>

\* apply_schema(required) succeeds: on to the optional script
RequiredOk(t) ==
    /\ tpc[t] = "required"
    /\ dbstate # "removed"
    /\ dbstate' = IF dbstate = "full" THEN "full" ELSE "required"
    /\ tpc' = [tpc EXCEPT ![t] = "optional"]
    /\ UNCHANGED <<top, trow, tret, tcount, schema_ready, schema_permit,
                   bootstrap_runs, premature, applied, tlog, db, ingRest, regVars, httpVars, rustVars>>

\* apply_schema(required) fails: `?` leaves the cell unset, the permit is
\* released and the operation returns the error
RequiredFail(t) ==
    /\ tpc[t] = "required"
    /\ schema_permit' = NoProc
    /\ tret' = [tret EXCEPT ![t] = Err("Store")]
    /\ tpc' = [tpc EXCEPT ![t] = "done"]
    /\ UNCHANGED <<top, trow, tcount, schema_ready, dbstate,
                   bootstrap_runs, premature, applied, tlog, db, ingRest, regVars, httpVars, rustVars>>

\* apply_schema(optional) answers; a failure is logged and the cell is set
\* all the same
OptionalDone(t, ok) ==
    /\ tpc[t] = "optional"
    /\ dbstate' = IF ok /\ dbstate # "removed" THEN "full" ELSE dbstate
    /\ schema_ready' = TRUE
    /\ schema_permit' = NoProc
    /\ tpc' = [tpc EXCEPT ![t] = "stmt"]
    /\ UNCHANGED <<top, trow, tret, tcount,
                   bootstrap_runs, premature, applied, tlog, db, ingRest, regVars, httpVars, rustVars>>

Finish(t, ret) ==
    /\ tret' = [tret EXCEPT ![t] = ret]
    /\ tpc' = [tpc EXCEPT ![t] = "done"]

\* the database carries out a write of task t
Carry(t, w) ==
    /\ db' = Apply(db, w)
    /\ applied' = Append(applied, [task |-> t, table |-> w.table, data |-> w.data])

\* the operation's first statement is sent and answered: REMOVE DATABASE,
\* UPSERT of the symbol, or the SELECT of get_project, from whose answer
\* control upsert_project builds the record it will write.  A statement on a
\* removed database fails.
Statement(t) ==
    /\ tpc[t] = "stmt"
    /\ premature' = IF schema_ready THEN premature ELSE premature \cup {top[t].op}
    /\ IF dbstate = "removed"
       THEN Finish(t, Err("Store")) /\ UNCHANGED <<db, applied, dbstate, trow>>
       ELSE CASE top[t].op = "remove_database" ->
                     /\ db' = [x \in Tables |-> {}]
                     /\ dbstate' = "removed"
                     /\ Finish(t, OkVal(<<>>))
                     /\ UNCHANGED <<applied, trow>>
              [] top[t].op = "upsert_symbol" ->
                     /\ Carry(t, Write("symbol", WithSymbolId(top[t].arg)))
                     /\ Finish(t, OkVal(WithSymbolId(top[t].arg)))
                     /\ UNCHANGED <<dbstate, trow>>
              [] top[t].op = "upsert_project" ->
                     /\ trow' = [trow EXCEPT
                                    ![t] = Some(upsert_project(db["project"], top[t].arg))]
                     /\ tpc' = [tpc EXCEPT ![t] = "write"]
                     /\ UNCHANGED <<db, applied, dbstate, tret>>
    /\ UNCHANGED <<top, tcount, schema_ready, schema_permit, bootstrap_runs, tlog,
                   ingRest, regVars, httpVars, rustVars>>

\* store upsert_project: ensure_schema finds the cell set, the UPSERT is
\* sent and answered
ProjectWrite(t) ==
    /\ tpc[t] = "write"
    /\ premature' = IF schema_ready THEN premature ELSE premature \cup {top[t].op}
    /\ IF dbstate = "removed"
       THEN Finish(t, Err("Store")) /\ UNCHANGED <<db, applied>>
       ELSE /\ Carry(t, Write("project", Unwrap(trow[t])))
            /\ Finish(t, OkVal(Unwrap(trow[t])))
    /\ UNCHANGED <<top, trow, tcount, schema_ready, schema_permit, dbstate,
                   bootstrap_runs, tlog, ingRest, regVars, httpVars, rustVars>>

\* the operation has returned to the task
TaskEnd(t) ==
    /\ tpc[t] = "done"
    /\ tlog' = Append(tlog, [task |-> t, op |-> top[t], ret |-> tret[t]])
    /\ tcount' = [tcount EXCEPT ![t] = @ + 1]
    /\ tpc' = [tpc EXCEPT ![t] = "idle"]
    /\ top' = [top EXCEPT ![t] = NoOp]
    /\ trow' = [trow EXCEPT ![t] = NoneOpt]
    /\ tret' = [tret EXCEPT ![t] = [kind |-> "none"]]
    /\ UNCHANGED <<schema_ready, schema_permit, dbstate, bootstrap_runs, premature,
                   applied, db, ingRest, regVars, httpVars, rustVars>>

TaskNext ==
    \/ \E t \in Tasks, o \in TaskOps : TaskStart(t, o)
    \/ \E t \in Tasks : SchemaReady(t)
    \/ \E t \in Tasks : SchemaEnter(t)
    \/ \E t \in Tasks : RequiredOk(t)
    \/ \E t \in Tasks : RequiredFail(t)
    \/ \E t \in Tasks, ok \in BOOLEAN : OptionalDone(t, ok)
    \/ \E t \in Tasks : Statement(t)
    \/ \E t \in Tasks : ProjectWrite(t)
    \/ \E t \in Tasks : TaskEnd(t)

(***************************************************************************)
(* docx-ingest: POST /ingest                                               *)
(***************************************************************************)
MaxHttpMembers == 2     \* items in the payload of an HTTP ingest

OK == 200
BAD_REQUEST == 400
NOT_FOUND == 404
REQUEST_TIMEOUT == 408
INTERNAL_SERVER_ERROR == 500

NoResponse == [status |-> 0]

InitHttp ==
    /\ hpc = "idle"
    /\ hresp = NoResponse
    /\ parser = "none"

HttpItemLists(items) == UNION {[1..n -> items] : n \in 0..MaxHttpMembers}

\* IngestPayload: bodies that pass the handler's checks, and bodies with a
\* blank solution, a blank project_id, no kind or no contents
HttpPayloads ==
    UNION {[solution : {"s"}, kind : {k}, project_id : {"p1"},
            payload : {"ok", "malformed"},
            items : HttpItemLists(IF k = "csharp" THEN CsharpItems ELSE RustItems),
            ingest_id : {NoneOpt}, has_metadata : BOOLEAN,
            primary_name : {NoneOpt}] : k \in {"csharp", "rust"}}
      \cup [solution : {"s", " "}, kind : {"csharp", "none"}, project_id : {"p1", " "},
            payload : {"ok", "missing"}, items : {<<>>}, ingest_id : {NoneOpt},
            has_metadata : {FALSE}, primary_name : {NoneOpt}]

\* From<RegistryError> for ApiError
RegistryStatus(outcome) == IF outcome = "unknown" THEN NOT_FOUND ELSE INTERNAL_SERVER_ERROR

\* From<ControlError> for ApiError
ControlStatus(ret) ==
    IF ret.kind = "ok" THEN OK
    ELSE IF ret.kind \in {"InvalidInput", "Parse"} THEN BAD_REQUEST
    ELSE INTERNAL_SERVER_ERROR

Answer(status) ==
    /\ hresp' = [status |-> status]
    /\ hpc' = "answered"

\* ingest_payload up to the control-plane call: require_non_empty,
\* require_kind, require_contents, control_for_solution (whose get_or_init
\* ends with `outcome`), then the call is started under the timeout
HttpIngest(body, outcome) ==
    /\ hpc = "idle"
    /\ ipc = "idle"
    /\ IF \/ Trim(body.solution) = ""
          \/ Trim(body.project_id) = ""
          \/ body.kind = "none"
          \/ body.payload = "missing"
       THEN Answer(BAD_REQUEST) /\ UNCHANGED <<req, ipc>>
       ELSE IF outcome # "ok"
       THEN Answer(RegistryStatus(outcome)) /\ UNCHANGED <<req, ipc>>
       ELSE /\ req' = [kind |-> body.kind, project_id |-> Trim(body.project_id),
                       payload |-> body.payload, items |-> body.items,
                       ingest_id |-> body.ingest_id,
                       has_metadata |-> body.has_metadata,
                       primary_name |-> body.primary_name]
            /\ ipc' = "validate"
            /\ hpc' = "control"
            /\ hresp' = hresp
    /\ UNCHANGED <<parsed, ist, batch, issued, pending, batch_err, ingCallVars,
                   ireturn, next_uuid, db, wlog, acked, calls, qres, parser,
                   regVars, taskVars, rustVars>>

\* parse_async: the parser is handed to the blocking executor
ParseSpawn ==
    /\ ipc = "parse"
    /\ ipc' = "parsing"
    /\ parser' = "running"
    /\ UNCHANGED <<req, parsed, ist, batch, issued, pending, batch_err, ingCallVars,
                   ireturn, next_uuid, db, wlog, acked, calls, qres, hpc, hresp,
                   regVars, taskVars, rustVars>>

\* the parser runs to its end on the blocking executor, whether or not
\* anything still waits for it
ParserRun ==
    /\ parser = "running"
    /\ parser' = "finished"
    /\ UNCHANGED <<ingVars, hpc, hresp, regVars, taskVars, rustVars>>

\* the ingest receives the parser's result through the JoinHandle and goes
\* on to the first store call
ParseJoin ==
    /\ ipc = "parsing"
    /\ parser = "finished"
    /\ IF req.payload = "malformed"
       THEN /\ ireturn' = Err("Parse")
            /\ ipc' = "done"
            /\ UNCHANGED <<parsed, ist, batch, issued, next_uuid>>
       ELSE /\ parsed' = Parse(req)
            /\ ipc' = "stages"
            /\ ireturn' = ireturn
            /\ EnterStage(1, Parse(req), <<>>, <<>>, NoneOpt)
    /\ UNCHANGED <<req, pending, batch_err, ingCallVars, db, wlog, acked, calls, qres,
                   httpVars, regVars, taskVars, rustVars>>

\* the control-plane call returned before the timeout: `??` maps its result
HttpAnswer ==
    /\ hpc = "control"
    /\ ipc = "done"
    /\ Answer(ControlStatus(ireturn))
    /\ UNCHANGED <<ingVars, parser, regVars, taskVars, rustVars>>

\* variant: the ingest runs on as a task of its own
AfterTimeoutDetached(position) == position

\* tokio::time::timeout drops the future of the call when the time is up
AfterTimeout(position) == "dropped"

\* request_timeout elapses while the call is pending
Timeout ==
    /\ hpc = "control"
    /\ ipc # "done"
    /\ Answer(REQUEST_TIMEOUT)
    /\ ipc' = AfterTimeout(ipc)
    /\ UNCHANGED <<req, parsed, ist, batch, issued, pending, batch_err, ingCallVars,
                   ireturn, next_uuid, db, wlog, acked, calls, qres, parser,
                   regVars, taskVars, rustVars>>

\* a statement sent before the future was dropped is carried out by the
\* database
LateCarry(i) ==
    /\ ipc = "dropped"
    /\ i \in pending
    /\ pending' = pending \ {i}
    /\ db' = Apply(db, batch[i])
    /\ UNCHANGED <<req, ipc, parsed, ist, batch, issued, batch_err, ingCallVars,
                   ireturn, next_uuid, wlog, acked, calls, qres, httpVars,
                   regVars, taskVars, rustVars>>

\* ... or is lost with the dropped future
LateLoss(i) ==
    /\ ipc = "dropped"
    /\ i \in pending
    /\ pending' = pending \ {i}
    /\ UNCHANGED <<req, ipc, parsed, ist, batch, issued, batch_err, ingCallVars,
                   ireturn, next_uuid, db, wlog, acked, calls, qres, httpVars,
                   regVars, taskVars, rustVars>>

HttpNext ==
    \/ \E body \in HttpPayloads, outcome \in {"ok", "unknown", "capacity", "failed"} :
           HttpIngest(body, outcome)
    \/ Validate
    \/ ResolvePayload
    \/ ParseSpawn
    \/ ParserRun
    \/ ParseJoin
    \/ IssueWrite
    \/ \E i \in pending : WriteOk(i)
    \/ \E i \in pending : WriteFail(i)
    \/ StageFails
    \/ StageDone
    \/ HttpAnswer
    \/ Timeout
    \/ \E i \in pending : LateCarry(i)
    \/ \E i \in pending : LateLoss(i)

(***************************************************************************)
(* rustdoc_json.rs: visit_module / visit_item over a crate index           *)
(***************************************************************************)
MaxItems == 3       \* items in the crate index
MaxChildren == 2    \* ids in a module's "items"

ItemIds == 1..MaxItems

\* ids a module can name: the items of the index and one id the index lacks
ChildIds == 1..(MaxItems + 1)

ItemKinds == {"module", "struct", "impl"}

\* RustdocItem: the crate it belongs to, the key of `inner`, and for a module
\* its "items"
Items ==
    [crate_id : {0, 1}, kind : {"module"},
     items : UNION {[1..n -> ChildIds] : n \in 0..MaxChildren}]
        \cup [crate_id : {0, 1}, kind : ItemKinds \ {"module"}, items : {<<>>}]

\* crate indexes: item 1 is the root
CrateDocs ==
    [root : {1},
     index : {ix \in [ItemIds -> Items] : ix[1].crate_id = 0}]

InitWalkIdle ==
    /\ crate_doc = [root |-> 0, index |-> <<>>]
    /\ stack = <<>>
    /\ state_seen = {}
    /\ state_symbols = <<>>
    /\ entered = [i \in ItemIds |-> 0]
    /\ walked = "no"

\* RustdocJsonParser::parse, given a crate document with its root item
InitWalk ==
    /\ InitRegistry
    /\ ttl = NoTtl
    /\ max_entries = NoMax
    /\ InitIngestIdle
    /\ InitTasks
    /\ InitHttp
    /\ crate_doc \in CrateDocs
    /\ stack = <<>>
    /\ state_seen = {}
    /\ state_symbols = <<>>
    /\ entered = [i \in ItemIds |-> 0]
    /\ walked = "no"

root_crate_id == crate_doc.index[crate_doc.root].crate_id

\* get_item: is the id a key of the index
HasItem(id) == id \in DOMAIN crate_doc.index

module_items(item) == IF item.kind = "module" THEN item.items ELSE <<>>

\* kinds visit_item adds a symbol for
SymbolKinds == {"struct", "enum", "trait", "function", "type_alias", "constant",
                "static", "union", "macro"}

\* variant: nothing counts as seen
AlreadySeenNever(set, id) == FALSE

\* self.seen.contains(&id)
AlreadySeen(set, id) == id \in set

Call(fn, id) == [fn |-> fn, id |-> id, pos |-> 0]

Top == stack[Len(stack)]

Return == SubSeq(stack, 1, Len(stack) - 1)

\* the call returns at one of its three guards
Guarded(id) ==
    \/ AlreadySeen(state_seen, id)
    \/ ~HasItem(id)
    \/ crate_doc.index[id].crate_id # root_crate_id

\* parse calls visit_module(root_id, ..)
WalkStart ==
    /\ walked = "no"
    /\ walked' = "running"
    /\ stack' = <<Call("visit_module", crate_doc.root)>>
    /\ UNCHANGED <<crate_doc, state_seen, state_symbols, entered,
                   regVars, ingVars, taskVars, httpVars>>

\* visit_module, lines 216-227: the guards, seen.insert, add_symbol
VisitModuleEnter ==
    /\ stack # <<>>
    /\ Top.fn = "visit_module"
    /\ Top.pos = 0
    /\ IF Guarded(Top.id)
       THEN /\ stack' = Return
            /\ UNCHANGED <<state_seen, state_symbols, entered>>
       ELSE /\ state_seen' = state_seen \cup {Top.id}
            /\ state_symbols' = Append(state_symbols, [id |-> Top.id, kind |-> "module"])
            /\ entered' = [entered EXCEPT ![Top.id] = @ + 1]
            /\ stack' = [stack EXCEPT ![Len(stack)].pos = 1]
    /\ UNCHANGED <<crate_doc, walked, regVars, ingVars, taskVars, httpVars>>

\* visit_module, lines 228-243: the next child id; a missing item or an item
\* of another crate is skipped, a module is visited by visit_module, any
\* other item by visit_item
VisitModuleChild ==
    /\ stack # <<>>
    /\ Top.fn = "visit_module"
    /\ Top.pos >= 1
    /\ LET items == module_items(crate_doc.index[Top.id])
           child_id == items[Top.pos]
           next == [stack EXCEPT ![Len(stack)].pos = @ + 1]
       IN  IF Top.pos > Len(items) THEN stack' = Return
           ELSE IF ~HasItem(child_id) THEN stack' = next
           ELSE IF crate_doc.index[child_id].crate_id # root_crate_id THEN stack' = next
           ELSE IF crate_doc.index[child_id].kind = "module"
           THEN stack' = Append(next, Call("visit_module", child_id))
           ELSE stack' = Append(next, Call("visit_item", child_id))
    /\ UNCHANGED <<crate_doc, state_seen, state_symbols, entered, walked,
                   regVars, ingVars, taskVars, httpVars>>

\* visit_item: the guards, seen.insert, then by kind: add_symbol, or
\* visit_module for a module, or nothing
VisitItem ==
    /\ stack # <<>>
    /\ Top.fn = "visit_item"
    /\ IF Guarded(Top.id)
       THEN /\ stack' = Return
            /\ UNCHANGED <<state_seen, state_symbols, entered>>
       ELSE /\ state_seen' = state_seen \cup {Top.id}
            /\ entered' = [entered EXCEPT ![Top.id] = @ + 1]
            /\ LET kind == crate_doc.index[Top.id].kind
               IN  /\ state_symbols' = IF kind \in SymbolKinds
                                       THEN Append(state_symbols,
                                                   [id |-> Top.id, kind |-> kind])
                                       ELSE state_symbols
                   /\ stack' = IF kind = "module"
                               THEN Append(Return, Call("visit_module", Top.id))
                               ELSE Return
    /\ UNCHANGED <<crate_doc, walked, regVars, ingVars, taskVars, httpVars>>

\* visit_module(root_id, ..) has returned to parse
WalkEnd ==
    /\ walked = "running"
    /\ stack = <<>>
    /\ walked' = "returned"
    /\ UNCHANGED <<crate_doc, stack, state_seen, state_symbols, entered,
                   regVars, ingVars, taskVars, httpVars>>

WalkNext ==
    \/ WalkStart
    \/ VisitModuleEnter
    \/ VisitModuleChild
    \/ VisitItem
    \/ WalkEnd

(***************************************************************************)
(* Specifications                                                          *)
(***************************************************************************)
\* the registry, with no ingest running
Init == InitRegistry /\ InitIngestIdle /\ InitTasks /\ InitHttp /\ InitWalkIdle

Spec == Init /\ [][Next]_vars

\* one ingest on a tenant database, the registry standing still
IngestInit ==
    /\ InitRegistry
    /\ ttl = NoTtl
    /\ max_entries = NoMax
    /\ InitIngestIdle
    /\ InitTasks
    /\ InitHttp
    /\ InitWalkIdle

IngestSpec == IngestInit /\ [][IngestNext]_vars

\* up to MaxIngests ingests in a row on a tenant database
RepeatSpec == IngestInit /\ [][RepeatNext]_vars

\* upsert_project calls on a tenant database
ProjectSpec == IngestInit /\ [][ProjectNext]_vars

\* ingests in a row on a tenant database, refused ones among them
RejectSpec == IngestInit /\ [][RejectNext]_vars

\* searches on a tenant database between ingests
SearchSpec == IngestInit /\ [][SearchNext]_vars

\* store operations of concurrent tasks on one handle
TaskSpec == IngestInit /\ [][TaskNext]_vars

\* one request on the HTTP ingest endpoint
HttpSpec == IngestInit /\ [][HttpNext]_vars

\* the rustdoc traversal of a crate index; the parser runs on a thread of
\* the blocking executor, which keeps running it
WalkSpec == InitWalk /\ [][WalkNext]_vars /\ WF_vars(WalkNext)

(***************************************************************************)
(* Registry properties                                                     *)
(***************************************************************************)
TypeOK ==
    /\ now \in 0..MaxTime
    /\ \A c \in Callers : pc[c] \in {"idle", "read", "write", "touch", "init",
                                     "building", "done"}
    /\ epc \in {"idle", "write"}
    /\ sweeper \in {"unspawned", "none", "running"}

\* two get_or_init calls overlapped in time
Concurrent(c, d) == c # d /\ (d \in overlap[c] \/ c \in overlap[d])

\* number of builder invocations made for tenant t
Builds(t) == Cardinality({c \in invoked : solution[c] = t})

BuildFailedFor(t) == \E c \in Callers : solution[c] = t /\ result[c].kind = "failed"

Returned(c, k) == pc[c] = "done" /\ result[c].kind = k

\* C1: concurrent get_or_init calls on one tenant whose builder succeeds (and
\* whose entry no evict_idle run has removed) invoke the builder exactly once
\* and all receive the same handle.
C1_SingleFlightSuccess ==
    \A t \in Tenants :
        (t \notin evicted /\ ~BuildFailedFor(t)) =>
            /\ Builds(t) <= 1
            /\ \A c \in Callers :
                 (solution[c] = t /\ Returned(c, "ok")) => Builds(t) = 1
            /\ \A c, d \in Callers :
                 (Concurrent(c, d) /\ solution[c] = t /\ solution[d] = t
                    /\ Returned(c, "ok") /\ Returned(d, "ok"))
                 => result[c].val = result[d].val

C1_Witness ==
    \E c, d \in Callers :
        /\ Concurrent(c, d)
        /\ solution[c] = solution[d]
        /\ solution[c] \notin evicted
        /\ Returned(c, "ok") /\ Returned(d, "ok")
        /\ result[c].val = result[d].val
        /\ Builds(solution[c]) = 1

\* C2: two concurrent get_or_init calls on one tenant whose builder fails see
\* exactly one builder invocation and receive the same error.
C2_SingleFlightFailure ==
    \A c, d \in Callers :
        (Concurrent(c, d) /\ solution[c] = solution[d] /\ entry[c] = entry[d]
           /\ solution[c] \notin evicted
           /\ Returned(c, "failed") /\ Returned(d, "failed"))
        => /\ result[c].val = result[d].val
           /\ Builds(solution[c]) = 1

\* C3: with max_entries = M and M tenants in the map, get_or_init for another
\* tenant returns CapacityReached{max = M}, invokes no builder and inserts no
\* entry; a call for a tenant that is in the map is never refused.
C3_CapacityRefusal ==
    /\ [](\A c \in Callers :
            result[c].kind = "capacity" =>
                /\ max_entries # NoMax
                /\ result[c].val = max_entries
                /\ c \notin invoked
                /\ entry[c] = NoEntry
                /\ \A t \in Tenants : entries[t] # c)
    /\ [][\A c \in Callers :
            (pc[c] = "write" /\ pc'[c] # "write") =>
                IF entries[solution[c]] = NoEntry /\ max_entries # NoMax
                     /\ MapLen(entries) = max_entries
                THEN /\ result'[c] = [kind |-> "capacity", val |-> max_entries]
                     /\ pc'[c] = "done"
                     /\ entries' = entries
                     /\ invoked' = invoked
                ELSE /\ result'[c].kind # "capacity"
                     /\ pc'[c] = "touch"
                     /\ entries'[solution[c]] # NoEntry]_vars
    /\ [][\A c \in Callers :
            (pc[c] = "read" /\ pc'[c] # "read" /\ entries[solution[c]] # NoEntry) =>
                /\ pc'[c] = "touch"
                /\ entry'[c] = entries[solution[c]]]_vars

C3_Witness ==
    \E c, d \in Callers :
        /\ max_entries = 1
        /\ Returned(c, "capacity")
        /\ result[c].val = 1
        /\ solution[d] # solution[c]
        /\ entries[solution[d]] = d
        /\ Returned(d, "ok")
        /\ invoked = {d}

\* C4: a failed build is not cached: the failing step leaves the map and the
\* placeholder as they are (cell unset, permit free), an error is only ever
\* returned by the call whose own builder invocation failed, and a later call
\* on that placeholder invokes the builder again and gets its handle.
C4_FailureNotCached ==
    /\ [][\A c \in Callers :
            (pc[c] = "building" /\ result'[c].kind = "failed") =>
                /\ entries' = entries
                /\ handle'[entry[c]] = NoHandle
                /\ permit'[entry[c]] = NoProc]_vars
    /\ [](\A c \in Callers :
            result[c].kind = "failed" =>
                /\ c \in invoked
                /\ result[c].val = c
                /\ handle[entry[c]] # c)
    /\ [][\A d \in Callers :
            (pc[d] = "init" /\ pc'[d] # "init" /\ handle[entry[d]] = NoHandle) =>
                /\ d \in invoked'
                /\ pc'[d] = "building"]_vars

C4_Witness ==
    \E c, d \in Callers :
        /\ Returned(c, "failed")
        /\ c \notin overlap[d] /\ d \notin overlap[c]
        /\ solution[d] = solution[c]
        /\ entry[d] = entry[c]
        /\ entries[solution[c]] = entry[c]
        /\ Returned(d, "ok")
        /\ result[d].val = d
        /\ handle[entry[c]] = d

\* C5: evict_idle with ttl = T removes exactly the entries idle for more than
\* T at the clock value it read, keeps the others (idle = T included) and
\* returns the number removed; with ttl unset it removes nothing and returns 0.
C5_EvictIdle ==
    /\ [][(epc = "write" /\ epc' = "idle") =>
            /\ \A t \in Tenants :
                 /\ (entries'[t] = NoEntry) <=>
                      (\/ entries[t] = NoEntry
                       \/ SaturatingSub(enow, last_used_ms[entries[t]]) > ttl)
                 /\ entries'[t] # NoEntry => entries'[t] = entries[t]
            /\ eret' = Cardinality({t \in Tenants :
                                      entries[t] # NoEntry /\ entries'[t] = NoEntry})
            /\ ((\A t \in Tenants : entries[t] # NoEntry =>
                    SaturatingSub(enow, last_used_ms[entries[t]]) > ttl)
                 => eret' = MapLen(entries))]_vars
    /\ [][(ttl = NoTtl /\ eret' # eret) => (eret' = 0 /\ entries' = entries)]_vars
    /\ [](ttl = NoTtl => (evicted = {} /\ eret \in {-1, 0} /\ erun = NoProc))

C5_Witness ==
    /\ ttl # NoTtl
    /\ epc = "idle"
    /\ eret = 1
    /\ \E t \in Tenants :
         /\ entries[t] # NoEntry
         /\ enow - last_used_ms[entries[t]] = ttl
    /\ \E t \in Tenants : t \in evicted /\ entries[t] = NoEntry

\* C6: every get_or_init call that returns a handle has stored the clock in
\* its entry's last_used_ms (built or cached), and evict_idle never removes an
\* entry that such a call touched ttl or less before the run's clock reading.
C6_TouchOnAccess ==
    /\ [][\A c \in Callers :
            (pc[c] = "touch" /\ pc'[c] # "touch") =>
                /\ last_used_ms'[entry[c]] = now
                /\ touched_at'[c] = now]_vars
    /\ [](\A c \in Callers :
            result[c].kind = "ok" =>
                /\ touched_at[c] >= 0
                /\ last_used_ms[entry[c]] >= touched_at[c])
    /\ [][\A t \in Tenants :
            (entries[t] # NoEntry /\ entries'[t] = NoEntry) =>
                \A c \in Callers :
                    (entry[c] = entries[t] /\ touched_at[c] >= 0)
                    => enow - touched_at[c] > ttl]_vars

C6_Witness ==
    \E c, d \in Callers :
        /\ ttl # NoTtl
        /\ c # d
        /\ entry[c] = d /\ entry[d] = d
        /\ Returned(c, "ok") /\ Returned(d, "ok")
        /\ result[c].val = d
        /\ epc = "idle" /\ eret = 0
        /\ enow - touched_at[d] > ttl
        /\ enow - touched_at[c] <= ttl
        /\ enow >= touched_at[c]
        /\ entries[solution[c]] = d

\* C7: while a build is in flight no map guard is held, so the map steps of
\* get_or_init for other tenants and of evict_idle can be taken.
C7_SlowBuilderBlocksNobody ==
    \A c \in Callers :
        pc[c] = "building" =>
            /\ writer = NoProc
            /\ readers = {}
            /\ \A d \in Callers :
                 solution[d] # solution[c] =>
                    /\ pc[d] = "read" => ENABLED ReadLookup(d)
                    /\ pc[d] = "write" => ENABLED WriteInsert(d)
                    /\ pc[d] = "touch" => ENABLED Touch(d)
                    /\ pc[d] = "init" => ENABLED CellEnter(d)
            /\ epc = "write" => ENABLED EvictRetain
            /\ registry_alive /\ erun = NoProc => ENABLED EvictStart

C7_Witness ==
    \E c, d \in Callers :
        /\ pc[c] = "building"
        /\ c \in overlap[d]
        /\ solution[d] # solution[c]
        /\ Returned(d, "ok")
        /\ result[d].val = d

\* C8 (as stated): once the registry has been dropped the sweeper task has stopped.
C8_SweeperStopsOnDrop == ~registry_alive => sweeper # "running"

\* C8 (amended): with ttl set spawn_sweeper starts a task that owns a clone of
\* the registry, runs evict_idle on every tick and never stops, also after
\* every other registry handle has been dropped; with ttl unset no task starts.
C8_SweeperRunsForever ==
    /\ [](ttl = NoTtl => sweeper # "running")
    /\ [](ttl # NoTtl => sweeper # "none")
    /\ [][sweeper = "running" => sweeper' = "running"]_vars
    /\ [][(sweeper = "running" /\ erun # SweeperId /\ erun' = SweeperId) =>
            (enow' = now /\ epc' = "write")]_vars
    /\ [](sweeper = "running" /\ erun = NoProc => ENABLED SweepTick)

C8_Witness ==
    /\ ~registry_alive
    /\ sweeper = "running"
    /\ erun = SweeperId
    /\ eret >= 1

(***************************************************************************)
(* Registry properties under eviction                                      *)
(***************************************************************************)
\* the calls whose builder invocation for tenant t is running
Building(t) == {c \in Callers : pc[c] = "building" /\ solution[c] = t}

\* C26: at any time at most one builder invocation is in flight for a tenant
\* name, also when evict_idle removes the tenant's entry during its build
C26_OneBuildInFlight == \A t \in Tenants : Cardinality(Building(t)) <= 1

\* C27: with max_entries = M the map never holds more than M entries
C27_CapacityBound ==
    max_entries # NoMax => MapLen(entries) <= max_entries

\* two overlapping calls for different tenants met a full map: one holds the
\* entry, the other was refused
C27_Witness ==
    /\ max_entries = 1
    /\ MapLen(entries) = 1
    /\ \E c, d \in Callers :
           /\ Concurrent(c, d)
           /\ solution[c] # solution[d]
           /\ entries[solution[c]] = c
           /\ Returned(d, "capacity")

\* call c returned BuildFailed and the placeholder it used is still in the map
FailedPlaceholder(c) ==
    /\ Returned(c, "failed")
    /\ entry[c] # NoEntry
    /\ entries[solution[c]] = entry[c]
    /\ handle[entry[c]] = NoHandle

\* C28: the placeholder left by a failed build stays in the map while no
\* eviction removes it (never, when ttl is unset) and counts toward capacity:
\* with max_entries = 1 a call for another tenant is refused with
\* CapacityReached, nothing inserted and no builder invoked, while a call for
\* the failed tenant finds the placeholder and invokes the builder again
C28_FailedPlaceholderCounts ==
    /\ [](\A c \in Callers :
             (Returned(c, "failed") /\ ttl = NoTtl) => FailedPlaceholder(c) \/
                 (entries[solution[c]] = entry[c] /\ handle[entry[c]] # NoHandle))
    /\ [][\A c, d \in Callers :
             (FailedPlaceholder(c) /\ max_entries = 1 /\ d # c) =>
                 /\ (solution[d] # solution[c] /\ pc[d] = "write" /\ pc'[d] # "write") =>
                        /\ result'[d] = [kind |-> "capacity", val |-> 1]
                        /\ pc'[d] = "done"
                        /\ entries' = entries
                        /\ invoked' = invoked
                 /\ (solution[d] = solution[c] /\ pc[d] \in {"read", "write"}
                         /\ pc'[d] # pc[d]) =>
                        /\ entry'[d] = entry[c]
                        /\ pc'[d] = "touch"
                 /\ (solution[d] = solution[c] /\ entry[d] = entry[c] /\ pc[d] = "init"
                         /\ pc'[d] # "init") =>
                        /\ pc'[d] = "building"
                        /\ d \in invoked']_vars

\* ttl unset, max_entries = 1: the build for one tenant failed, and a later
\* call for the other tenant was refused
C28_Witness ==
    /\ ttl = NoTtl
    /\ max_entries = 1
    /\ \E c, d \in Callers :
           /\ ~Concurrent(c, d) /\ c # d
           /\ FailedPlaceholder(c)
           /\ solution[d] # solution[c]
           /\ Returned(d, "capacity")
           /\ invoked = {c}

\* the same, with the later call for the failed tenant: admitted and built
C28_WitnessRetry ==
    /\ ttl = NoTtl
    /\ max_entries = 1
    /\ \E c, d \in Callers :
           /\ ~Concurrent(c, d) /\ c # d
           /\ Returned(c, "failed")
           /\ solution[d] = solution[c]
           /\ Returned(d, "ok")
           /\ invoked = {c, d}

(***************************************************************************)
(* Ingest properties                                                       *)
(***************************************************************************)
IngestTypeOK ==
    /\ ipc \in {"idle", "validate", "resolve", "parse", "stages", "done"}
    /\ ist \in 0..Len(StageOrder)
    /\ issued \in 0..Len(batch)
    /\ pending \subseteq 1..issued
    /\ ireturn.kind \in {"none", "ok", "InvalidInput", "Parse", "Store"}

\* position of x in a list without repetitions
PosIn(list, x) == CHOOSE i \in 1..Len(list) : list[i] = x

\* the entries of the write log that are writes to the given tables
LogOf(tables) == SelectSeq(wlog, LAMBDA e : e.table \in tables)

\* store_symbols has returned Ok
SymbolsStored ==
    /\ ipc \in {"stages", "done"}
    /\ \E i \in 1..Len(wlog) : wlog[i].table # "symbol" /\ wlog[i].table # "project"

\* index in the parsed list of the first symbol with the key of symbol s
FirstOccurrence(s) ==
    CHOOSE j \in 1..Len(parsed.symbols) :
        /\ parsed.symbols[j].symbol_key = s.symbol_key
        /\ \A k \in 1..(j - 1) : parsed.symbols[k].symbol_key # s.symbol_key

\* C9: the symbols an ingest stores are the parsed symbols deduplicated by
\* symbol_key: every distinct key once, with the attributes of its first
\* occurrence, in the original relative order; the symbol table holds
\* exactly these records.
C9_DedupeKeepsFirst ==
    SymbolsStored =>
        /\ \A i, j \in 1..Len(stored_symbols) :
             i # j => stored_symbols[i].symbol_key # stored_symbols[j].symbol_key
        /\ {stored_symbols[i].symbol_key : i \in 1..Len(stored_symbols)}
             = {parsed.symbols[j].symbol_key : j \in 1..Len(parsed.symbols)}
        /\ \A i \in 1..Len(stored_symbols) :
             [stored_symbols[i] EXCEPT !.id = NoneOpt]
                = parsed.symbols[FirstOccurrence(stored_symbols[i])]
        /\ \A i, j \in 1..Len(stored_symbols) :
             i < j => FirstOccurrence(stored_symbols[i])
                        < FirstOccurrence(stored_symbols[j])
        /\ db["symbol"] = {stored_symbols[i] : i \in 1..Len(stored_symbols)}

\* the documented example: [(k, a), (k, b), (k', c)] stores [(k, a), (k', c)]
C9_Witness ==
    /\ SymbolsStored
    /\ Len(parsed.symbols) = 3
    /\ parsed.symbols[1].symbol_key = parsed.symbols[2].symbol_key
    /\ parsed.symbols[1].doc_summary # parsed.symbols[2].doc_summary
    /\ parsed.symbols[3].symbol_key # parsed.symbols[1].symbol_key
    /\ Len(stored_symbols) = 2
    /\ stored_symbols[1].doc_summary = parsed.symbols[1].doc_summary
    /\ stored_symbols[2].symbol_key = parsed.symbols[3].symbol_key
    /\ Cardinality(db["symbol"]) = 2

\* the documented order of the writes of one ingest
ClaimedWriteOrder ==
    <<"symbol", "doc_block", "doc_source", "documents", "member_of", "contains",
      "returns", "param_type", "implements", "see_also", "inherits", "references",
      "observed_in", "ingest">>

ClaimedTables == {ClaimedWriteOrder[i] : i \in 1..Len(ClaimedWriteOrder)}

\* C10: the writes of an ingest are sent in the order symbols (one at a
\* time, in first-occurrence order), doc blocks, doc source, documents,
\* member_of, contains, returns, param_type, implements, see_also, inherits,
\* references, observed_in, ingest record; a write is sent only when every
\* write of the earlier groups has been answered, and when the report is
\* returned every write has been carried out.
C10_WriteOrder ==
    LET log == LogOf(ClaimedTables)
        symlog == LogOf({"symbol"})
        firsts == {j \in 1..Len(parsed.symbols) :
                     \A k \in 1..(j - 1) :
                         parsed.symbols[k].symbol_key # parsed.symbols[j].symbol_key}
    IN  /\ \A i, j \in 1..Len(log) :
             i < j => PosIn(ClaimedWriteOrder, log[i].table)
                        <= PosIn(ClaimedWriteOrder, log[j].table)
        /\ \A i \in pending : batch[i].table = wlog[Len(wlog)].table
        /\ (batch # <<>> /\ batch[1].table = "symbol") => Cardinality(pending) <= 1
        /\ \A i \in 1..Len(symlog) :
             /\ \E j \in firsts : parsed.symbols[j].symbol_key = symlog[i].ref
             /\ \A k \in 1..(i - 1) :
                  FirstOccurrence([symbol_key |-> symlog[k].ref])
                     < FirstOccurrence([symbol_key |-> symlog[i].ref])
        /\ ireturn.kind = "ok" =>
             /\ pending = {}
             /\ acked = Len(wlog)
             /\ Len(symlog) = Cardinality(firsts)
             /\ Len(LogOf({"doc_block"})) = Len(parsed.doc_blocks)
             /\ Len(LogOf({"ingest"})) = 1
             /\ wlog[Len(wlog)].table = "ingest"
             /\ \A t \in Tables : Cardinality(db[t]) = Len(LogOf({t}))

C10_Witness ==
    /\ ireturn.kind = "ok"
    /\ Len(LogOf({"symbol"})) = 3
    /\ \A t \in {"doc_block", "doc_source", "documents", "member_of", "contains",
                 "returns", "param_type", "implements", "see_also", "observed_in",
                 "ingest"} : LogOf({t}) # <<>>

(***************************************************************************)
(* Properties of repeated ingests                                          *)
(***************************************************************************)
Ok(c) == c.ret.kind = "ok"

\* two calls that carry the same payload for the same project
SamePayload(a, b) ==
    a.req.kind = b.req.kind /\ a.req.project_id = b.req.project_id
        /\ a.req.items = b.req.items

\* C11: the symbol table holds at most one record per symbol_key, and a
\* payload ingested a second time, right after its first ingest, leaves the
\* symbol table (keys and attributes) as the first ingest left it
C11_SymbolUpsertIdempotent ==
    /\ \A x, y \in db["symbol"] : x.symbol_key = y.symbol_key => x = y
    /\ \A j \in 2..Len(calls) :
           (Ok(calls[j - 1]) /\ Ok(calls[j]) /\ SamePayload(calls[j - 1], calls[j]))
               => calls[j].db["symbol"] = calls[j - 1].db["symbol"]

C11_Witness ==
    /\ Len(calls) = 2
    /\ Ok(calls[1]) /\ Ok(calls[2])
    /\ SamePayload(calls[1], calls[2])
    /\ calls[1].db["symbol"] # {}
    /\ calls[2].log # <<>>

\* the first j calls all returned a report and all carried the same request
SameRequestTimes(j) ==
    /\ j \in 1..Len(calls)
    /\ \A i \in 1..j : Ok(calls[i]) /\ calls[i].req = calls[1].req

Count(j, table) == Cardinality(calls[j].db[table])

\* C12 as stated: after k ingests of one request the store holds k ingest
\* records, k times the doc blocks of the payload and, when the request has
\* source metadata, k doc sources, whether or not the caller supplied an
\* ingest_id
C12_LinearGrowth ==
    \A j \in 1..Len(calls) :
        SameRequestTimes(j) =>
            /\ Count(j, "ingest") = j
            /\ Count(j, "doc_block") = j * calls[1].ret.doc_block_count
            /\ Count(j, "doc_source") = IF IsSome(calls[1].ret.doc_source_id) THEN j ELSE 0

\* C12, amended: doc blocks and doc sources grow by the payload's count with
\* every call; ingest records grow by one per call when the request carries
\* no ingest_id, while a request with a caller-supplied ingest_id keeps
\* exactly one ingest record, stored under the scoped id
C12_LinearGrowthExceptCallerId ==
    \A j \in 1..Len(calls) :
        SameRequestTimes(j) =>
            LET r == calls[1].req
            IN  /\ Count(j, "doc_block") = j * calls[1].ret.doc_block_count
                /\ calls[1].ret.doc_block_count = Len(Parse(r).doc_blocks)
                /\ Count(j, "doc_source") = IF r.has_metadata \/ r.kind = "rust" THEN j ELSE 0
                /\ IF IsSome(r.ingest_id)
                   THEN calls[j].db["ingest"] =
                            {[id |-> Some(make_scoped_ingest_id(r.project_id,
                                                                Unwrap(r.ingest_id))),
                              project_id |-> r.project_id,
                              requested_ingest_id |->
                                  IF StartsWith(Unwrap(r.ingest_id), <<r.project_id, "::">>)
                                  THEN NoneOpt ELSE r.ingest_id]}
                   ELSE Count(j, "ingest") = j

\* the same request, with a caller-supplied ingest_id, doc blocks and source
\* metadata, has been ingested twice
C12_Witness ==
    /\ SameRequestTimes(2)
    /\ IsSome(calls[1].req.ingest_id)
    /\ calls[1].ret.doc_block_count > 0
    /\ Count(2, "doc_source") = 2
    /\ Count(2, "ingest") = 1

(***************************************************************************)
(* Properties of ingest ids                                                *)
(***************************************************************************)
\* the calls that created an ingest with a caller-supplied id
WithCallerId == {i \in 1..Len(calls) : Ok(calls[i]) /\ IsSome(calls[i].req.ingest_id)}

ProjectOf(i) == calls[i].req.project_id
CallerIdOf(i) == Unwrap(calls[i].req.ingest_id)

\* "P::C"
Scoped(p, c) == <<p, "::">> \o c

\* another project has an ingest created with the caller id of call i
UsedElsewhere(i) ==
    \E j \in WithCallerId : ProjectOf(j) # ProjectOf(i) /\ CallerIdOf(j) = CallerIdOf(i)

\* a later ingest of the same project wrote the record of call i again
Replaced(i) ==
    \E j \in WithCallerId :
        /\ j > i
        /\ ProjectOf(j) = ProjectOf(i)
        /\ make_scoped_ingest_id(ProjectOf(j), CallerIdOf(j))
               = make_scoped_ingest_id(ProjectOf(i), CallerIdOf(i))
        /\ CallerIdOf(j) # CallerIdOf(i)

Asked(id) == qres.op = "get_ingest" /\ qres.id = id

\* the answer is the record with this id, and it belongs to project p
Returns(id, p) ==
    /\ qres.ret.kind = "ok"
    /\ IsSome(qres.ret.value)
    /\ Unwrap(qres.ret.value).id = Some(id)
    /\ Unwrap(qres.ret.value).project_id = p

C14_AmbiguousCallerId ==
    \A i, j \in WithCallerId :
        (ProjectOf(i) # ProjectOf(j) /\ CallerIdOf(i) = CallerIdOf(j)
             /\ ~ContainsScope(CallerIdOf(i)))
        => LET r == CallerIdOf(i)
               rows(p) == {x \in db["ingest"] : x.id = Some(Scoped(p, r)) /\ x.project_id = p}
           IN  /\ Cardinality(rows(ProjectOf(i))) = 1
               /\ Cardinality(rows(ProjectOf(j))) = 1
               /\ rows(ProjectOf(i)) # rows(ProjectOf(j))
               /\ (Asked(r) /\ ~Replaced(i) /\ ~Replaced(j)) => qres.ret = Err("InvalidInput")
               /\ Asked(Scoped(ProjectOf(i), r)) => Returns(Scoped(ProjectOf(i), r), ProjectOf(i))

\* r1 was used under p1 and under p2, and a client asked for r1
C14_Witness ==
    /\ \E i, j \in WithCallerId :
           /\ ProjectOf(i) = "p1" /\ ProjectOf(j) = "p2"
           /\ CallerIdOf(i) = <<"r1">> /\ CallerIdOf(j) = <<"r1">>
    /\ Asked(<<"r1">>)
    /\ qres.ret = Err("InvalidInput")
    /\ Cardinality(db["ingest"]) = 2

\* the same two ingests, and a client asked for p1::r1
C14_WitnessScoped ==
    /\ \E i, j \in WithCallerId :
           /\ ProjectOf(i) = "p1" /\ ProjectOf(j) = "p2"
           /\ CallerIdOf(i) = <<"r1">> /\ CallerIdOf(j) = <<"r1">>
    /\ Asked(<<"p1", "::", "r1">>)
    /\ Returns(<<"p1", "::", "r1">>, "p1")

(***************************************************************************)
(* Properties of symbol lookups                                            *)
(***************************************************************************)
AskedSymbol(op, p, k) == qres.op = op /\ qres.project_id = p /\ qres.key = k

\* everything in an adjacency payload belongs to project p
PayloadOf(a, p) ==
    /\ \A b \in a.doc_blocks : b.project_id = p
    /\ \A x \in a.doc_sources : x.project_id = p
    /\ \A x \in a.related_symbols : x.project_id = p
    /\ \A t \in AdjacencyTables : \A e \in a.relations[t] : e.project_id = p

\* C15: a symbol persisted by an ingest of project P stays stored for P under
\* its key; get_symbol(P, key) returns the stored symbol of P, get_symbol of
\* any other project with that key returns nothing, and get_symbol_adjacency
\* of any other project returns the empty payload (of P: a payload of P only)
C15_NoCrossProjectLookup ==
    /\ \A i \in 1..Len(calls) : \A n \in 1..Len(calls[i].symbols) :
           \E x \in db["symbol"] :
               /\ x.symbol_key = calls[i].symbols[n].symbol_key
               /\ x.project_id = calls[i].req.project_id
    /\ \A s \in db["symbol"] : \A p \in Projects :
           /\ AskedSymbol("get_symbol", p, s.symbol_key) =>
                  qres.ret = IF p = s.project_id THEN Some(s) ELSE NoneOpt
           /\ AskedSymbol("get_symbol_adjacency", p, s.symbol_key) =>
                  IF p = s.project_id
                  THEN qres.ret.symbol = Some(s) /\ PayloadOf(qres.ret, p)
                  ELSE qres.ret = AdjacencyDefault

\* both projects hold symbols, and p2 asked for a key of p1
C15_Witness ==
    /\ \E s, t \in db["symbol"] : s.project_id = "p1" /\ t.project_id = "p2"
    /\ \E s \in db["symbol"] :
           /\ s.project_id = "p1"
           /\ AskedSymbol("get_symbol", "p2", s.symbol_key)
    /\ qres.ret = NoneOpt

\* p1 asked for the adjacency of one of its symbols that has doc blocks
C15_WitnessAdjacency ==
    /\ \E s \in db["symbol"] :
           /\ s.project_id = "p1"
           /\ AskedSymbol("get_symbol_adjacency", "p1", s.symbol_key)
    /\ qres.ret.doc_blocks # {}
    /\ qres.ret.relations["observed_in"] # {}

(***************************************************************************)
(* Properties of the edges of one ingest                                   *)
(***************************************************************************)
Reported == ipc = "done" /\ ireturn.kind = "ok"

Edges(table) == {x.edge : x \in db[table]}

\* the stored symbol / doc block of this ingest behind a record id
IsStoredSymbol(rec, p) ==
    \E i \in 1..Len(stored_symbols) :
        /\ make_record_id("symbol", Unwrap(stored_symbols[i].id)) = rec
        /\ stored_symbols[i] \in db["symbol"]
        /\ stored_symbols[i].project_id = p

IsStoredBlock(rec, p) ==
    \E i \in 1..Len(stored_blocks) :
        /\ make_record_id("doc_block", Unwrap(stored_blocks[i].id)) = rec
        /\ stored_blocks[i] \in db["doc_block"]
        /\ stored_blocks[i].project_id = p

\* the doc blocks of this ingest whose symbol_key is that of a stored symbol
ResolvingBlocks ==
    {i \in 1..Len(stored_blocks) :
        /\ IsSome(stored_blocks[i].symbol_key)
        /\ \E j \in 1..Len(stored_symbols) :
               stored_symbols[j].symbol_key = Unwrap(stored_blocks[i].symbol_key)}

\* C16: every documents edge goes from a doc block persisted by this ingest
\* to a symbol persisted by this ingest, both stored and both of the edge's
\* project; the report's documents_edge_count is the number of doc blocks
\* whose symbol_key resolves, and that many edges are stored
C16_DocumentsEdges ==
    /\ \A e \in Edges("documents") :
           /\ IsStoredBlock(e.in_id, e.project_id)
           /\ IsStoredSymbol(e.out_id, e.project_id)
           /\ e.project_id = req.project_id
    /\ Reported =>
           /\ ireturn.documents_edge_count = Cardinality(ResolvingBlocks)
           /\ Cardinality(db["documents"]) = Cardinality(ResolvingBlocks)
           /\ \A i \in ResolvingBlocks :
                  \E e \in Edges("documents") :
                      /\ e.in_id = make_record_id("doc_block", Unwrap(stored_blocks[i].id))
                      /\ e.out_id = make_record_id("symbol", Unwrap(stored_blocks[i].symbol_key))

\* three doc blocks, two of them for the same symbol, all documented
C16_Witness ==
    /\ Reported
    /\ ireturn.documents_edge_count = 3
    /\ ireturn.symbol_count = 2
    /\ Cardinality(Edges("documents")) = 3

\* the edge families derived from symbol metadata and from doc blocks
DerivedTables == {"member_of", "contains", "returns", "param_type", "implements",
                  "see_also", "inherits", "references"}

\* the payload has a reference that no symbol of the payload answers:
\* C# item 4 (see also T:Unknown), rustdoc item 3 without item 4 (parameter
\* of type m::T)
HasDanglingReference ==
    \/ req.kind = "csharp" /\ \E i \in 1..Len(req.items) : req.items[i] = 4
    \/ /\ req.kind = "rust"
       /\ \E i \in 1..Len(req.items) : req.items[i] = 3
       /\ \A i \in 1..Len(req.items) : req.items[i] # 4

\* C17: every derived edge (member_of, contains, returns, param_type,
\* implements, see_also, inherits, references) joins two symbols persisted by
\* this ingest; a reference that resolves to no such symbol leaves no edge
\* and does not fail the ingest (only a refused write does)
C17_DerivedEdgesResolve ==
    /\ \A t \in DerivedTables : \A e \in Edges(t) :
           /\ IsStoredSymbol(e.in_id, e.project_id)
           /\ IsStoredSymbol(e.out_id, e.project_id)
    /\ (ipc = "done" /\ req \in GoodRequests /\ ~batch_err) => ireturn.kind = "ok"
    /\ (Reported /\ HasDanglingReference) =>
           \A t \in DerivedTables : \A e \in Edges(t) :
               /\ e.out_id # make_record_id("symbol",
                                 make_csharp_symbol_key(req.project_id, <<"T:", "Unknown">>))
               /\ (req.kind = "rust" =>
                       e.out_id # make_record_id("symbol",
                                      RustKey(req.project_id, <<"m", "::", "T">>)))

\* a C# payload with a resolving see-also (item 3 to T:Foo) and a dangling
\* one (item 4 to T:Unknown) was ingested without error
C17_Witness ==
    /\ Reported
    /\ req.kind = "csharp"
    /\ req.items = <<1, 3, 4>>
    /\ Cardinality(Edges("see_also")) = 1
    /\ Edges("inherits") # {}
    /\ Edges("references") # {}

\* a rustdoc payload whose member_of, contains, returns and implements edges
\* all resolve
C17_WitnessRust ==
    /\ Reported
    /\ req.kind = "rust"
    /\ \A t \in {"member_of", "contains", "returns", "param_type", "implements"} :
           Edges(t) # {}

C18_WitnessRust ==
    /\ Reported
    /\ req.kind = "rust"
    /\ ~req.has_metadata
    /\ IsSome(ireturn.doc_source_id)
    /\ db["observed_in"] # {}

\* the database when the running ingest began
EmptyDb == [t \in Tables |-> {}]
DbBefore == IF calls = <<>> THEN EmptyDb ELSE calls[Len(calls)].db

\* C19: when an ingest that created a DocSource reports, it has added exactly
\* one observed_in edge per symbol it persisted, from that symbol to that
\* DocSource, of kind "doc_source", and nothing else to observed_in; the
\* DocSource is new, no earlier edge points at it, and every observed_in edge
\* points at a doc source with the edge's own project and ingest id
C19_ObservedInEdges ==
    /\ Reported =>
           LET new == db["observed_in"] \ DbBefore["observed_in"]
               src == ireturn.doc_source_id
           IN  IF IsSome(src)
               THEN /\ {x.edge : x \in new} =
                           {Relation(make_record_id("symbol", Unwrap(stored_symbols[i].id)),
                                     make_record_id("doc_source", Unwrap(src)),
                                     req.project_id, req.ingest_id, Some("doc_source")) :
                               i \in 1..Len(stored_symbols)}
                    /\ Cardinality(new) = Len(stored_symbols)
                    /\ \E x \in db["doc_source"] \ DbBefore["doc_source"] : x.id = src
                    /\ \A x \in DbBefore["observed_in"] :
                           x.edge.out_id # make_record_id("doc_source", Unwrap(src))
               ELSE new = {}
    /\ \A e \in Edges("observed_in") :
           \E x \in db["doc_source"] :
               /\ e.out_id = make_record_id("doc_source", Unwrap(x.id))
               /\ x.project_id = e.project_id
               /\ x.ingest_id = e.ingest_id
               /\ e.kind = Some("doc_source")

\* the second ingest of a symbol reports: the symbol has one edge to each of
\* the two doc sources
C19_Witness ==
    /\ Reported
    /\ Len(calls) = 1
    /\ IsSome(ireturn.doc_source_id)
    /\ IsSome(calls[1].ret.doc_source_id)
    /\ Len(stored_symbols) = 1
    /\ calls[1].symbols = stored_symbols
    /\ Cardinality(db["observed_in"]) = 2
    /\ Cardinality({x.edge.out_id : x \in db["observed_in"]}) = 2

\* one ingest of three symbols with a DocSource reports
C19_WitnessSingle ==
    /\ Reported
    /\ calls = <<>>
    /\ Len(stored_symbols) = 3
    /\ Cardinality(db["observed_in"]) = 3

(***************************************************************************)
(* Properties of upsert_project                                            *)
(***************************************************************************)
\* the stored project p1, if there is one
StoredProject == {x \in db["project"] : x.project_id = "p1"}

\* alias a is in the list up to case and surrounding whitespace, or is blank
Present(aliases, a) ==
    \/ Trim(a) = ""
    \/ \E i \in 1..Len(aliases) : Lower(Trim(aliases[i])) = Lower(Trim(a))

\* C20: an upsert_project whose aliases are all present in the stored
\* project up to case and whitespace (and which sets no name) leaves aliases
\* and search_text as they are; and an upsert_project applied right after
\* the same upsert_project leaves the stored project as it is
C20_AliasMergeIdempotent ==
    [][(qres'.op = "upsert_project" /\ qres'.req.project_id = "p1") =>
           LET request == qres'.req
           IN  /\ \A old \in StoredProject :
                      (request.name = NoneOpt
                           /\ \A i \in 1..Len(request.aliases) :
                                  Present(old.aliases, request.aliases[i]))
                      => \A new \in {x \in db'["project"] : x.project_id = "p1"} :
                             /\ new.aliases = old.aliases
                             /\ new.search_text = old.search_text
               /\ (qres.op = "upsert_project" /\ qres.req = request) => db' = db]_vars

\* the project holds Acme, and the last request, which carried other
\* spellings of it, was applied again
C20_Witness ==
    /\ qres.op = "upsert_project"
    /\ qres.req.project_id = "p1"
    /\ qres.req.aliases = <<" ACME ", "acme">>
    /\ \E x \in StoredProject :
           /\ x.aliases = <<"Acme", "Lib">>
           /\ x.search_text = Some(<<"p1", "core", "acme", "lib">>)

(***************************************************************************)
(* Refused ingests                                                         *)
(***************************************************************************)
\* the request has a blank project_id, no payload, or a payload the parser
\* rejects
Refused(r) ==
    \/ r.project_id = " "
    \/ r.payload \in {"missing", "malformed"}

RefusedWith(r) ==
    IF r.project_id = " " \/ r.payload = "missing" THEN Err("InvalidInput")
    ELSE Err("Parse")

\* C30: an ingest with a blank project_id, without payload or with a payload
\* the parser rejects returns the error without having sent any write: from
\* its start to its return the write log is empty and the database holds what
\* it held before the call
C30_RefusedIngestWritesNothing ==
    /\ (req.kind # "none" /\ Refused(req)) =>
           /\ wlog = <<>>
           /\ pending = {}
           /\ db = DbBefore
           /\ ipc = "done" => ireturn = RefusedWith(req)
    /\ \A i \in 1..Len(calls) :
           Refused(calls[i].req) =>
               /\ calls[i].ret = RefusedWith(calls[i].req)
               /\ calls[i].log = <<>>
               /\ calls[i].db = IF i = 1 THEN EmptyDb ELSE calls[i - 1].db

\* an ingest stored a symbol, and a later ingest was refused by the parser
C30_Witness ==
    /\ Len(calls) = 1
    /\ calls[1].ret.kind = "ok"
    /\ calls[1].db["symbol"] # {}
    /\ ipc = "done"
    /\ req.payload = "malformed"
    /\ ireturn = Err("Parse")

C30_WitnessBlankProject ==
    /\ Len(calls) = 2
    /\ calls[1].db["symbol"] # {}
    /\ calls[2].req.project_id = " "
    /\ calls[2].ret = Err("InvalidInput")

(***************************************************************************)
(* search_symbols_advanced without filters                                 *)
(***************************************************************************)
Searched(layer) == qres.op = "search_symbols_advanced" /\ qres.layer = layer

NoFilters(request) ==
    \A f \in {"name", "qualified_name", "symbol_key", "signature"} : request[f] = NoneOpt

BlankFilters(request) ==
    \A f \in {"name", "qualified_name", "symbol_key", "signature"} :
        request[f] \in {NoneOpt, Some(<<" ">>)}

\* C21 as stated: with all four filters None the operation returns
\* InvalidInput and issues no query, at the control plane and at the store
C21_NoFiltersRefused ==
    (qres.op = "search_symbols_advanced" /\ NoFilters(qres.req)) =>
        /\ qres.ret = Err("InvalidInput")
        /\ qres.queries = <<>>

\* C21: the control-plane operation called with every filter None or blank
\* returns InvalidInput and issues no query; the store operation called with
\* every filter None issues one query whose only clause is the project and
\* answers with symbols of that project
C21_NoFiltersRefusedByControlPlane ==
    /\ (Searched("control") /\ BlankFilters(qres.req)) =>
           /\ qres.ret = Err("InvalidInput")
           /\ qres.queries = <<>>
    /\ (Searched("store") /\ NoFilters(qres.req)) =>
           /\ qres.queries = <<{"project_id"}>>
           /\ qres.ret.kind = "ok"
           /\ qres.ret.value \subseteq {x \in db["symbol"] : x.project_id = qres.project_id}
           /\ Cardinality(qres.ret.value) =
                  IF Cardinality({x \in db["symbol"] : x.project_id = qres.project_id})
                         < qres.limit
                  THEN Cardinality({x \in db["symbol"] : x.project_id = qres.project_id})
                  ELSE qres.limit

\* the control plane refused a search without filters on a database that
\* holds symbols of the project
C21_Witness ==
    /\ Searched("control")
    /\ NoFilters(qres.req)
    /\ qres.ret = Err("InvalidInput")
    /\ \E x \in db["symbol"] : x.project_id = qres.project_id

\* the store operation answered a search without filters with a symbol
C21_WitnessStore ==
    /\ Searched("store")
    /\ NoFilters(qres.req)
    /\ qres.ret.kind = "ok"
    /\ qres.ret.value # {}

(***************************************************************************)
(* Schema bootstrap                                                        *)
(***************************************************************************)
\* tasks whose ensure_schema is running the bootstrap
Bootstrapping == {t \in Tasks : tpc[t] \in {"required", "optional"}}

\* C23 as stated: the bootstrap script runs exactly once per handle, and no
\* store operation sends a statement before the bootstrap has completed
C23_BootstrapExactlyOnce ==
    /\ bootstrap_runs <= 1
    /\ premature = {}
    /\ \A t \in Tasks : tpc[t] \in {"stmt", "write"} => bootstrap_runs = 1

\* C23: at most one bootstrap run is in flight per handle; a run whose
\* required script fails leaves the cell unset and the next ensure_schema
\* runs the script again; once a run has completed the cell stays set and no
\* run starts again; every store operation except remove_database sends its
\* statements only when the cell is set, on a database that has the required
\* schema (or has been removed)
C23_BootstrapOnceCompleted ==
    /\ [](Cardinality(Bootstrapping) <= 1)
    /\ [](Bootstrapping # {} => Bootstrapping = {schema_permit} /\ ~schema_ready)
    /\ [](premature \subseteq {"remove_database"})
    /\ [](\A t \in Tasks :
             (tpc[t] \in {"stmt", "write"} /\ top[t].op # "remove_database") =>
                 /\ schema_ready
                 /\ dbstate \in {"required", "full", "removed"}
                 /\ bootstrap_runs >= 1)
    /\ [][schema_ready => schema_ready' /\ bootstrap_runs' = bootstrap_runs]_vars
    /\ [][bootstrap_runs' # bootstrap_runs =>
              /\ bootstrap_runs' = bootstrap_runs + 1
              /\ Bootstrapping = {}
              /\ \E t \in Tasks : tpc[t] = "ensure" /\ tpc'[t] = "required"]_vars

\* one task runs the bootstrap for the first time while the other waits in
\* ensure_schema
C23_Witness ==
    \E t, u \in Tasks :
        /\ tpc[t] = "optional"
        /\ tpc[u] = "ensure"
        /\ top[u].op = "upsert_symbol"
        /\ bootstrap_runs = 1
        /\ tlog = <<>>

\* the required script failed once; a later operation ran the bootstrap again
\* and sent its statement
C23_WitnessRetry ==
    /\ bootstrap_runs = 2
    /\ schema_ready
    /\ dbstate = "full"
    /\ \E t \in Tasks : tpc[t] = "done" /\ tret[t].kind = "ok"

\* remove_database sent its statement on a handle that never bootstrapped
C23_WitnessRemove ==
    /\ premature = {"remove_database"}
    /\ bootstrap_runs = 0
    /\ dbstate = "removed"

(***************************************************************************)
(* Concurrent writers of one tenant                                        *)
(***************************************************************************)
\* the symbol writes the database has carried out for key k, oldest first
SymbolWrites(k) ==
    SelectSeq(applied, LAMBDA w : w.table = "symbol" /\ w.data.symbol_key = k)

WrittenKeys == {applied[i].data.symbol_key :
                   i \in {j \in 1..Len(applied) : applied[j].table = "symbol"}}

\* C22: whatever the interleaving of the tasks that upsert a symbol_key, the
\* database holds exactly one symbol with that key, and it is, attribute for
\* attribute, the record of the write the database carried out last
C22_LastWriteWins ==
    dbstate # "removed" =>
        \A k \in WrittenKeys :
            {x \in db["symbol"] : x.symbol_key = k}
                = {SymbolWrites(k)[Len(SymbolWrites(k))].data}

\* both tasks, as their first operation, upserted the same key with
\* different attributes; the record of the second write is the one stored
C22_Witness ==
    /\ tlog = <<>>
    /\ \A t \in Tasks : tpc[t] = "done" /\ tret[t].kind = "ok"
                            /\ top[t].op = "upsert_symbol"
    /\ Len(applied) = 2
    /\ applied[1].task # applied[2].task
    /\ applied[1].data.symbol_key = applied[2].data.symbol_key
    /\ applied[1].data.doc_summary # applied[2].data.doc_summary
    /\ db["symbol"] = {applied[2].data}

\* upsert_project requests for p1 that have returned Ok
ReturnedUpserts ==
    {tlog[i].op.arg : i \in {j \in 1..Len(tlog) :
                                /\ tlog[j].op.op = "upsert_project"
                                /\ tlog[j].ret.kind = "ok"}}
        \cup {top[t].arg : t \in {u \in Tasks : /\ tpc[u] = "done"
                                                /\ top[u].op = "upsert_project"
                                                /\ tret[u].kind = "ok"}}

InSearchText(project, a) ==
    \/ Trim(a) = ""
    \/ /\ IsSome(project.search_text)
       /\ \E i \in 1..Len(Unwrap(project.search_text)) :
              Unwrap(project.search_text)[i] = Lower(Trim(a))

\* C29: every non-blank alias passed to an upsert_project call that returned
\* Ok is, up to case, among the stored project's aliases and in its
\* search_text, also when calls for the project run concurrently
C29_AliasesAccumulate ==
    dbstate # "removed" =>
        \A request \in ReturnedUpserts :
            \A i \in 1..Len(request.aliases) :
                /\ StoredProject # {}
                /\ \A x \in StoredProject :
                       /\ Present(x.aliases, request.aliases[i])
                       /\ InSearchText(x, request.aliases[i])

(***************************************************************************)
(* HTTP ingest timeout                                                     *)
(***************************************************************************)
TimedOut == hresp.status = REQUEST_TIMEOUT

\* C24: when request_timeout elapses before the control-plane call has
\* returned, the handler answers 408 and the call is dropped: from then on
\* the ingest sends no store write, takes no parser result and returns
\* nothing, the response stays as it is, and a parser running on the
\* blocking executor is left running until it finishes
C24_TimeoutDropsIngest ==
    /\ [](TimedOut => hpc = "answered" /\ ireturn.kind = "none")
    /\ [][(hpc = "control" /\ hpc' = "answered" /\ ipc # "done") =>
              /\ hresp'.status = REQUEST_TIMEOUT
              /\ parser' = parser
              /\ wlog' = wlog]_vars
    /\ [][TimedOut =>
              /\ wlog' = wlog
              /\ issued' = issued
              /\ parsed' = parsed
              /\ ireturn' = ireturn
              /\ hresp' = hresp]_vars
    /\ [][parser # parser' =>
              \/ parser = "none" /\ parser' = "running"
              \/ parser = "running" /\ parser' = "finished"]_vars

\* the timeout came between two store writes of a stage: one has been sent,
\* the next never is
C24_Witness ==
    /\ TimedOut
    /\ wlog # <<>>
    /\ issued < Len(batch)
    /\ pending = {}

\* the timeout came while the parser was running; the parser has finished
\* and nothing took its result
C24_WitnessParser ==
    /\ TimedOut
    /\ parser = "finished"
    /\ req.items # <<>>
    /\ req.payload = "ok"
    /\ parsed.symbols = <<>>
    /\ wlog = <<>>

(***************************************************************************)
(* rustdoc traversal                                                       *)
(***************************************************************************)
SymbolsFor(i) == {k \in 1..Len(state_symbols) : state_symbols[k].id = i}

InRootCrate(i) == HasItem(i) /\ crate_doc.index[i].crate_id = root_crate_id

\* C25: on every crate index, cyclic module references included, the
\* traversal returns; visit_module and visit_item go past their guards at
\* most once per item id and add at most one symbol for it, and they neither
\* enter, nor add a symbol for, nor walk the children of an item that is
\* missing or belongs to another crate
C25_TraversalTerminates ==
    /\ [](\A i \in ItemIds : entered[i] <= 1 /\ Cardinality(SymbolsFor(i)) <= 1)
    /\ [](\A i \in state_seen : InRootCrate(i) /\ entered[i] = 1)
    /\ [](\A k \in 1..Len(state_symbols) : state_symbols[k].id \in state_seen)
    /\ [](\A k \in 1..Len(stack) : stack[k].pos >= 1 => stack[k].id \in state_seen)
    /\ <>(walked = "returned")

\* two modules of the root crate name each other, one of them also names an
\* item of another crate; the traversal has returned with one symbol for each
\* module and none for the foreign item
C25_Witness ==
    /\ walked = "returned"
    /\ \E i, j \in ItemIds, f \in ItemIds :
           /\ i # j
           /\ crate_doc.index[i].kind = "module" /\ crate_doc.index[j].kind = "module"
           /\ \E k \in 1..Len(crate_doc.index[i].items) : crate_doc.index[i].items[k] = j
           /\ \E k \in 1..Len(crate_doc.index[j].items) : crate_doc.index[j].items[k] = i
           /\ \E k \in 1..Len(crate_doc.index[j].items) : crate_doc.index[j].items[k] = f
           /\ crate_doc.index[f].crate_id # root_crate_id
           /\ state_seen = {i, j}
           /\ Cardinality(SymbolsFor(i)) = 1 /\ Cardinality(SymbolsFor(j)) = 1
           /\ SymbolsFor(f) = {}

====
